---- MODULE Spec2Model ----
(***************************************************************************)
(* A model of the mycelia scheduling and state engine: the PostgreSQL      *)
(* storage, Interactor.invoke_node and the worker's on_node_enqueued.      *)
(*                                                                         *)
(*   Spec        the storage (create_node, start_node, complete_node,      *)
(*               cancel_session) under any sequence of calls.              *)
(*   SpecOrch    one orchestration: the invoke_node coroutines of one      *)
(*               submitted call, interleaved at their awaits.              *)
(*   SpecAdmit   the same with failing create_node calls and a client that *)
(*               cancels, under a fair event loop.                         *)
(*   SpecWorker  one worker process and a client that may cancel, over     *)
(*               the session an orchestration has admitted.                *)
(*   SpecLocal   GraphsInteractor over LocalStorage: one executed call,    *)
(*               its nodes' runs, and a client that resumes and cancels.   *)
(*   SpecStorage LocalStorage under any sequence of calls on three graphs. *)
(*   SpecProgress the worker when every handler returns a value, with      *)
(*               fair delivery and fair steps.                             *)
(*   SpecCalls   the client building NodeCall objects and chaining them    *)
(*               with then.                                                *)
(*   SpecInvoke  the Executor turning built calls into InvokedNodes and    *)
(*               handler arguments.                                        *)
(*   SpecBroker  the RabbitMQ consumer: the wrapper that runs the worker   *)
(*               callback for each delivered message and acknowledges it.  *)
(*   SpecRace    create_node and complete_node as concurrent PostgreSQL    *)
(*               transactions, with row locks and READ COMMITTED reads.    *)
(*                                                                         *)
(* Every storage call is one statement run in autocommit, so it is one     *)
(* atomic step of the tables; SpecRace alone follows the statements of     *)
(* concurrent calls row by row.                                            *)
(***************************************************************************)
EXTENDS Integers, FiniteSets, Sequences, TLC

(***************************************************************************)
(* Identifiers.  UUIDs are opaque; three nodes, two sessions and two       *)
(* result payloads are enough for fan-in of two, a duplicate completion    *)
(* with a different payload and a second session.                          *)
(***************************************************************************)
NodeIds == {"n1", "n2", "n3"}

SessionIds == {"s1", "s2"}

Results == {"r1", "r2"}

\* The id of the call that a running handler returns in place of a value.
SpliceIds == {"n4"}

\* A call with two independent arguments: n6 takes n5 and n1, which have no
\* dependency of their own, so their admissions meet at the session lock.
FanInIds == {"n5", "n6"}

\* The chain A().then(B()).then(C()): n7 is A, n8 is B, n9 is C.
ChainIds == {"n7", "n8", "n9"}

\* Every call a client can submit.
CallIds == NodeIds \cup FanInIds \cup ChainIds

\* SQL NULL / Python None of a uuid or bytea value.
NULL == "NULL"

\* Spec follows sequences of at most MaxCalls storage calls.
MaxCalls == 6

VARIABLES
    sessions,       \* table mycelia.sessions: id -> [cancelled_at]
    graphs,         \* table mycelia.graphs:   id -> [session_id, result]
    nodes,          \* table mycelia.nodes:    id -> [graph_id, pending_dependency_count, started_at, finished_at]
    dependencies,   \* table mycelia.dependencies: set of [node_id, graph_id, is_data]
    last,           \* the last storage call and its outcome
    calls,          \* the number of storage calls made by Spec
    admission,      \* history: node id -> pending_dependency_count stored at admission (-1: not admitted)
    completions,    \* history: node id -> number of complete_node calls that did not raise
    firstReady,     \* history: node id -> times returned ready by the first complete_node of a dependency graph
    queue,          \* broker: node id -> number of undelivered "node enqueued" messages
    broadcasts,     \* broker: session ids whose "session cancelled" message is in flight to the worker
    invocations,    \* <<caller, node id>> -> position of that Interactor.invoke_node coroutine
    created_nodes,  \* Context.created_nodes: node id -> state of its EventWithValue
    session_id,     \* Context.session_id: the SingleUseLockWithValue, [value, state]
    creates,        \* history: [issued: id -> create_node calls issued, returned: ids whose call returned,
                    \*           with_session: ids admitted with CreatedSession, raised: invocation -> its exception]
    SESSIONS,       \* Interactor.__SESSIONS: session id -> [is_set, subscriber_count]
    worker,         \* delivery -> [node, session_id, parent, exec, result, ready]
    trace,          \* history: delivery -> what happened during that on_node_enqueued call
    lgraphs,        \* LocalStorage.__graphs: id -> [result, status, dependent_graph_id, dependent_node_ids]
    lnodes,         \* LocalStorage.__nodes: id -> [id, graph_id, handler_id, arguments, dependencies]
    lqueue,         \* GraphsInteractor's broker: node id -> number of undelivered "node enqueued" messages
    lpublished,     \* history: node id -> number of "node enqueued" messages published
    lcancelled,     \* GraphsInteractor's broker: graph ids whose "graph cancelled" message is undelivered
    RUNNING_GRAPHS, \* GraphsInteractor.__RUNNING_GRAPHS: graph id -> whether its Event is set
                    \* (SpecExec tells the Event objects apart: graph id -> the Event)
    lrun,           \* node id -> [pc, orchestrated_calls] of its on_node_enqueued call
    llast,          \* the last client call of SpecLocal (resume, cancel) and the number of them so far
    ncalls,         \* the NodeCall objects built so far: id -> [arguments, dependencies]
    nwrappers,      \* the NodeCalls objects built so far, each the sequence of its calls
    ncache,         \* the lru_cache of Executor.get_invoked_node: call id -> InvokedNode
    nlast,          \* the last operation on calls, what it returned, and the number of then calls so far
    messages,       \* RabbitMQ deliveries: message -> [pos, outcome, logged, acks] of its callback wrapper
    tx,             \* PostgreSQL: statement -> [pc, rows, seen, pending, locks, found, result] of its transaction
    executions,     \* GraphsInteractor.__execute_node calls: execution -> [pc, node, event, outcome]
    events          \* the asyncio.Event objects made by __execute_node: event -> whether it is set

dbVars == <<sessions, graphs, nodes, dependencies>>

callVars == <<last, admission, completions, firstReady>>

orchVars == <<invocations, created_nodes, session_id, creates>>

workerVars == <<SESSIONS, worker, trace>>

engineVars == <<dbVars, callVars, calls, queue, broadcasts, orchVars, workerVars>>

localVars == <<lgraphs, lnodes, lqueue, lpublished, lcancelled, RUNNING_GRAPHS, lrun, llast>>

buildVars == <<ncalls, nwrappers, ncache, nlast>>

\* The variables of the specifications of one component.
otherVars == <<messages, tx, executions, events>>

vars == <<engineVars, localVars, buildVars, otherVars>>

\* The four tables as one value.
Db == [sessions |-> sessions, graphs |-> graphs, nodes |-> nodes, dependencies |-> dependencies]

\* datetime.now(UTC): a value later than the one the column held.  A
\* timestamp column holds 0 for NULL, else the ordinal of the write that
\* produced its value.
Now(old) == old + 1

(***************************************************************************)
(* PostgresStorage.create_node: one statement of CTEs, run in autocommit.  *)
(***************************************************************************)
NoSession == [id |-> NULL]

NoGraph == [id |-> NULL, session_id |-> NULL]

\* CTE pending_dependencies: the inserted dependency rows joined with the
\* graphs (as of the statement's snapshot) whose result is NULL.
PendingDependencies_DataOnly(d, node) ==
    {g \in DOMAIN node.dependencies :
        node.dependencies[g] /\ g \in DOMAIN d.graphs /\ d.graphs[g].result = NULL}

PendingDependencies_AllRows(d, node) ==
    DOMAIN node.dependencies

PendingDependencies(d, node) ==
    {g \in DOMAIN node.dependencies : g \in DOMAIN d.graphs /\ d.graphs[g].result = NULL}

PgCreateNode(d, node, graph, session) ==
    LET sessions1 == IF session.id = NULL THEN d.sessions
                     ELSE d.sessions @@ (session.id :> [cancelled_at |-> 0])
        graphs1 == IF graph.id = NULL THEN d.graphs
                   ELSE d.graphs @@ (graph.id :> [session_id |-> graph.session_id, result |-> NULL])
        \* primary and foreign keys of 797c81c201d2_init.py, checked at the end of the statement
        violated ==
            \/ session.id # NULL /\ session.id \in DOMAIN d.sessions
            \/ graph.id # NULL /\ graph.id \in DOMAIN d.graphs
            \/ graph.id # NULL /\ graph.session_id \notin DOMAIN sessions1
            \/ node.id \in DOMAIN d.nodes
            \/ node.id \notin DOMAIN graphs1            \* nodes.graph_id is written as node.id
            \/ \E g \in DOMAIN node.dependencies : g \notin DOMAIN graphs1
        parentFound == node.parent_id # NULL /\ node.parent_id \in DOMAIN d.nodes
        pending == Cardinality(PendingDependencies(d, node))
        nodes1 == IF parentFound
                  THEN [d.nodes EXCEPT ![node.parent_id].finished_at = Now(@)]
                  ELSE d.nodes
        nodes2 == nodes1 @@ (node.id :> [graph_id |-> node.id,
                                         pending_dependency_count |-> pending,
                                         started_at |-> 0,
                                         finished_at |-> 0])
        deps2 == d.dependencies \cup
                 {[node_id |-> node.id, graph_id |-> g, is_data |-> node.dependencies[g]] :
                     g \in DOMAIN node.dependencies}
    IN  IF violated
        THEN [db |-> d, raised |-> "IntegrityError", is_ready |-> FALSE]
        ELSE [db |-> [sessions |-> sessions1, graphs |-> graphs1, nodes |-> nodes2, dependencies |-> deps2],
              raised |-> IF node.parent_id # NULL /\ ~parentFound THEN "NodeNotFound" ELSE "none",
              is_ready |-> pending = 0]

(***************************************************************************)
(* PostgresStorage.start_node.                                             *)
(***************************************************************************)
DataDependencies(d, id) ==
    {x.graph_id : x \in {y \in d.dependencies : y.node_id = id /\ y.is_data}}

PgStartNode(d, id) ==
    IF id \notin DOMAIN d.nodes
    THEN [db |-> d, raised |-> "NodeNotFound", graph_id |-> NULL, dependencies |-> <<>>]
    ELSE LET g == d.nodes[id].graph_id
             s == d.graphs[g].session_id
         IN  [db |-> [d EXCEPT !.nodes[id].started_at = Now(@)],
              raised |-> IF d.sessions[s].cancelled_at # 0 THEN "SessionCancelled" ELSE "none",
              graph_id |-> g,
              dependencies |-> [x \in DataDependencies(d, id) |-> d.graphs[x].result]]

(***************************************************************************)
(* The server-side function mycelia.complete_node.                         *)
(***************************************************************************)
Dependents_DataOnly(d, g) ==
    {x.node_id : x \in {y \in d.dependencies : y.graph_id = g /\ y.is_data}}

\* The nodes with a dependency row on graph g.
Dependents(d, g) == {x.node_id : x \in {y \in d.dependencies : y.graph_id = g}}

ReadyAmong_None(ns, candidates) == {}

ReadyAmong_OnePending(ns, candidates) == {n \in candidates : ns[n].pending_dependency_count <= 1}

ReadyAmong_NoFilter(ns, candidates) == candidates

\* The rows returned: dependents whose pending_dependency_count is 0.
ReadyAmong(ns, candidates) == {n \in candidates : ns[n].pending_dependency_count = 0}

PgCompleteNode(d, id, result) ==
    IF id \notin DOMAIN d.nodes
    THEN [db |-> d, raised |-> "NodeNotFound", ready_nodes |-> {}]
    ELSE LET g == d.nodes[id].graph_id
             nodes1 == [d.nodes EXCEPT ![id].finished_at = Now(@)]
             nodes2 == [n \in DOMAIN nodes1 |->
                           IF n \in Dependents(d, g)
                           THEN [nodes1[n] EXCEPT !.pending_dependency_count = @ - 1]
                           ELSE nodes1[n]]
         IN  IF d.graphs[g].result = NULL
             THEN [db |-> [d EXCEPT !.nodes = nodes2, !.graphs[g].result = result],
                   raised |-> "none",
                   ready_nodes |-> ReadyAmong(nodes2, Dependents(d, g))]
             ELSE [db |-> [d EXCEPT !.nodes = nodes1, !.graphs[g].result = result],
                   raised |-> "none",
                   ready_nodes |-> ReadyAmong(nodes1, Dependents(d, g))]

(***************************************************************************)
(* PostgresStorage.cancel_session.                                         *)
(***************************************************************************)
IsRunning_AnyGraph(d, id) ==
    \E g \in DOMAIN d.graphs : d.graphs[g].session_id = id

\* The EXISTS subquery is_running.
IsRunning(d, id) ==
    \E g \in DOMAIN d.graphs : d.graphs[g].session_id = id /\ d.graphs[g].result = NULL

UpdatedSession_AnyTime(d, id) ==
    /\ id \in DOMAIN d.sessions
    /\ IsRunning(d, id)

\* The CTE updated_session: the WHERE clause of the UPDATE finds the row.
UpdatedSession(d, id) ==
    /\ id \in DOMAIN d.sessions
    /\ d.sessions[id].cancelled_at = 0
    /\ IsRunning(d, id)

PgCancelSession(d, id) ==
    LET updated == UpdatedSession(d, id)
        results == (IF updated THEN <<TRUE>> ELSE <<>>) \o
                   (IF id \in DOMAIN d.sessions THEN <<d.sessions[id].cancelled_at # 0>> ELSE <<>>)
    IN  [db |-> IF updated THEN [d EXCEPT !.sessions[id].cancelled_at = Now(@)] ELSE d,
         raised |-> IF Len(results) = 2 THEN "none"
                    ELSE IF Len(results) = 0 THEN "SessionNotFound"
                    ELSE IF results[1] THEN "SessionCancelled"
                    ELSE "SessionFinished"]


(***************************************************************************)
(* The submitted calls and the state before anything is submitted.         *)
(***************************************************************************)
\* The submitted calls: InvokedNode.dependencies of each call, dependency id ->
\* is_data.  n3 fans in n1 (data) and n2 (ordering only), n2 takes n1 as an
\* argument: a fan-in of two, a chain and a dependency shared by two parents.
CallDependencies_None(id) == [g \in {} |-> TRUE]

CallDependencies(id) ==
    CASE id = "n1" -> [g \in {} |-> TRUE]
      [] id = "n2" -> [g \in {"n1"} |-> TRUE]
      [] id = "n3" -> [g \in {"n1", "n2"} |-> g = "n1"]
      [] id = "n5" -> [g \in {} |-> TRUE]
      [] id = "n6" -> [g \in {"n1", "n5"} |-> TRUE]
      [] id = "n7" -> [g \in {} |-> TRUE]
      [] id = "n8" -> [g \in {"n7"} |-> FALSE]
      [] id = "n9" -> [g \in {"n8"} |-> FALSE]

\* The CreatedNode and CreatedGraph that invoke_node builds for a graph root.
RootNode(id) == [id |-> id, parent_id |-> NULL, graph_id |-> id, dependencies |-> CallDependencies(id)]

RootGraph(id, s) == [id |-> id, session_id |-> s]

Invocations ==
    {<<"client", n>> : n \in CallIds} \cup
    UNION {{<<n, g>> : g \in DOMAIN CallDependencies(n)} : n \in CallIds}

\* The deliveries the worker takes, in the order it takes them.
DeliveryOrder == <<"d1", "d2", "d3">>

Deliveries == {DeliveryOrder[i] : i \in DOMAIN DeliveryOrder}

EmptyDb == [sessions |-> [s \in {} |-> 0], graphs |-> [g \in {} |-> 0],
            nodes |-> [n \in {} |-> 0], dependencies |-> {}]

SetDb(d) ==
    /\ sessions' = d.sessions
    /\ graphs' = d.graphs
    /\ nodes' = d.nodes
    /\ dependencies' = d.dependencies

DbIs(d) ==
    /\ sessions = d.sessions
    /\ graphs = d.graphs
    /\ nodes = d.nodes
    /\ dependencies = d.dependencies

InitCalls ==
    /\ last = [op |-> "init", id |-> NULL, raised |-> "none", ready |-> {}]
    /\ calls = 0
    /\ completions = [n \in NodeIds |-> 0]
    /\ firstReady = [n \in NodeIds |-> 0]

InitBroker ==
    /\ broadcasts = {}

InitOrchestration ==
    /\ invocations = [c \in Invocations |-> "none"]
    /\ created_nodes = [n \in {} |-> "unset"]
    /\ session_id = [value |-> NULL, state |-> "unused"]
    /\ creates = [issued |-> [n \in CallIds |-> 0], returned |-> {}, with_session |-> {},
                  raised |-> [c \in Invocations |-> "none"]]

InitWorker ==
    /\ SESSIONS = [s \in {} |-> 0]
    /\ worker = [d \in Deliveries |->
                    [node |-> NULL, session_id |-> NULL, parent |-> "idle", exec |-> "idle",
                     result |-> NULL, ready |-> {}]]
    /\ trace = [d \in Deliveries |->
                   [set_in_handler |-> FALSE, set_at_raise |-> FALSE, complete_calls |-> 0,
                    published |-> {}, cancel_calls |-> 0, cancelled_in |-> "none",
                    outcome |-> "none", spliced |-> NULL]]

\* The calls of SpecLocal: the client executes r(p, a, w(p)); b is the call
\* that the handler of a submits or returns.
LocalCalls == {"r", "p", "a", "b", "w"}

InitLocal ==
    /\ lgraphs = <<>>
    /\ lnodes = <<>>
    /\ lqueue = [n \in LocalCalls |-> 0]
    /\ lpublished = [n \in LocalCalls |-> 0]
    /\ lcancelled = {}
    /\ RUNNING_GRAPHS = <<>>
    /\ lrun = [n \in LocalCalls |-> [pc |-> "none", orchestrated_calls |-> <<>>]]
    /\ llast = [op |-> "init", id |-> NULL, result |-> NULL, calls |-> 0]

\* No NodeCall has been built and nothing is cached.
InitNodeCalls ==
    /\ ncalls = <<>>
    /\ nwrappers = {}
    /\ ncache = <<>>
    /\ nlast = [op |-> "init", thens |-> 0]

\* The node-ready messages in the worker's RabbitMQ queue.
Messages == {"q1", "q2", "q3"}

\* No message has been delivered to the consumer.
InitMessages ==
    /\ messages = [m \in Messages |-> [pos |-> "queued", outcome |-> "none", logged |-> FALSE, acks |-> 0]]

\* The storage calls that SpecRace runs side by side, each one statement in
\* a transaction of its own: the admissions of n2 and n3 and the completions
\* of their dependencies n1 and n2.
Txns == {<<"create_node", "n2">>, <<"create_node", "n3">>, <<"complete_node", "n1">>, <<"complete_node", "n2">>}

IdleTx == [pc |-> "idle", rows |-> {}, seen |-> {}, pending |-> {}, locks |-> {}, found |-> FALSE, result |-> NULL]

\* No statement is running.
InitTransactions ==
    /\ tx = [t \in Txns |-> IdleTx]

\* The on_node_enqueued tasks of SpecExec.  LocalBroker starts one task for
\* each "node enqueued" message it takes from its queue.
Executions == {"e1", "e2", "e3"}

\* No message has reached __execute_node.
InitExecutions ==
    /\ executions = [e \in Executions |-> [pc |-> "idle", node |-> NULL, event |-> NULL, outcome |-> "none"]]
    /\ events = [e \in {} |-> FALSE]

Init ==
    /\ DbIs(EmptyDb)
    /\ InitCalls
    /\ admission = [n \in CallIds \cup SpliceIds |-> -1]
    /\ queue = [n \in CallIds \cup SpliceIds |-> 0]
    /\ InitBroker
    /\ InitOrchestration
    /\ InitWorker
    /\ InitLocal
    /\ InitNodeCalls
    /\ InitMessages
    /\ InitTransactions
    /\ InitExecutions

(***************************************************************************)
(* A storage call and what it leaves behind, whoever makes it.             *)
(***************************************************************************)
StorageCreateNode(r, node) ==
    /\ SetDb(r.db)
    /\ last' = [op |-> "create_node", id |-> node.id, raised |-> r.raised,
                ready |-> IF r.raised = "none" /\ r.is_ready THEN {node.id} ELSE {}]
    /\ admission' = IF r.raised = "IntegrityError" THEN admission
                    ELSE [admission EXCEPT ![node.id] = r.db.nodes[node.id].pending_dependency_count]
    /\ UNCHANGED <<completions, firstReady>>

StorageStartNode(r, id) ==
    /\ SetDb(r.db)
    /\ last' = [op |-> "start_node", id |-> id, raised |-> r.raised, ready |-> {}]
    /\ UNCHANGED <<admission, completions, firstReady>>

StorageCompleteNode(r, id) ==
    /\ SetDb(r.db)
    /\ last' = [op |-> "complete_node", id |-> id, raised |-> r.raised, ready |-> r.ready_nodes]
    /\ completions' = IF r.raised = "none" THEN [completions EXCEPT ![id] = @ + 1] ELSE completions
    /\ firstReady' = [n \in NodeIds |->
                         IF r.raised = "none" /\ completions[id] = 0 /\ n \in r.ready_nodes
                         THEN firstReady[n] + 1 ELSE firstReady[n]]
    /\ UNCHANGED admission

StorageCancelSession(r, id) ==
    /\ SetDb(r.db)
    /\ last' = [op |-> "cancel_session", id |-> id, raised |-> r.raised, ready |-> {}]
    /\ UNCHANGED <<admission, completions, firstReady>>

(***************************************************************************)
(* Spec: any sequence of storage calls.                                    *)
(***************************************************************************)
Called ==
    /\ calls < MaxCalls
    /\ calls' = calls + 1
    /\ UNCHANGED <<queue, broadcasts, orchVars, workerVars, localVars, buildVars, otherVars>>

\* create_node as Interactor.invoke_node calls it: (node, graph, session) for the
\* first admission of a session, (node, graph) for a graph root in a known
\* session, (node) with a parent for a call returned by a running node.
CreateSessionNode ==
    \E id \in NodeIds, s \in SessionIds :
        /\ Called
        /\ StorageCreateNode(PgCreateNode(Db, RootNode(id), RootGraph(id, s), [id |-> s]), RootNode(id))

CreateGraphNode ==
    \E id \in NodeIds, s \in SessionIds :
        /\ Called
        /\ StorageCreateNode(PgCreateNode(Db, RootNode(id), RootGraph(id, s), NoSession), RootNode(id))

CreateChildNode ==
    \E id \in NodeIds : \E p \in NodeIds \ {id} :
        LET node == [id |-> id, parent_id |-> p,
                     graph_id |-> IF p \in DOMAIN nodes THEN nodes[p].graph_id ELSE p,
                     dependencies |-> CallDependencies(id)]
        IN  /\ Called
            /\ StorageCreateNode(PgCreateNode(Db, node, NoGraph, NoSession), node)

StartNode ==
    \E id \in NodeIds :
        /\ Called
        /\ StorageStartNode(PgStartNode(Db, id), id)

CompleteNode ==
    \E id \in NodeIds, result \in Results :
        /\ Called
        /\ StorageCompleteNode(PgCompleteNode(Db, id, result), id)

CancelSession ==
    \E id \in SessionIds :
        /\ Called
        /\ StorageCancelSession(PgCancelSession(Db, id), id)

Next ==
    \/ CreateSessionNode
    \/ CreateGraphNode
    \/ CreateChildNode
    \/ StartNode
    \/ CompleteNode
    \/ CancelSession

Spec == Init /\ [][Next]_vars

(***************************************************************************)
(* SpecOrch: one orchestration.  The client submits one call with no       *)
(* context; Interactor.invoke_node recurses over its dependencies, one     *)
(* coroutine per <<caller, node>>, all sharing one Context.  A coroutine   *)
(* gives way to the others only at its awaits.                             *)
(***************************************************************************)
Node(c) == c[2]

\* context.created_nodes.get(node.id) is not None, on entry.
IsCreated_Never(map, id) == FALSE

IsCreated(map, id) == id \in DOMAIN map

\* await gather(...) over the dependencies has returned: every dependency's
\* EventWithValue has been set, by set() or by an exception.
DependenciesCreated_NoWait(map, deps) == TRUE

DependenciesCreated(map, deps) == \A g \in deps : g \in DOMAIN map /\ map[g] # "unset"

\* SingleUseLockWithValue.__aenter__ returns without waiting: the lock was
\* never entered, or the first to enter it has left and set the event.
Enterable_NoWait(lock) == TRUE

Enterable(lock) == lock.state # "held"

\* What __aenter__ returns, is_session_created: False to the first to enter.
IsSessionCreated(lock) == lock.state # "unused"

\* The EventWithValue of an entry holds an exception.
IsException(entry) == entry \notin {"unset", "set"}

Exited_NoPropagate(entry, exception) == entry

\* EventWithValue.__exit__ with an exception: it is stored, and the event
\* set, unless the event is already set.
Exited(entry, exception) == IF entry = "unset" THEN exception ELSE entry

\* The positions of a coroutine that has not ended.
Unfinished == {"spawned", "waiting", "gathering", "locking", "creating session", "creating", "publishing"}

\* The positions inside `with ExitStack()`, after enter_context(is_created).
Owning == {"gathering", "locking", "creating session", "creating", "publishing"}

\* The tasks of the TaskGroup of gather that invocation c waits for.
Children(c) == IF invocations[c] = "gathering" THEN {x \in Invocations : x[1] = Node(c)} ELSE {}

\* Task.cancel() reaches the tasks F and, through the TaskGroups they wait
\* in, every unfinished task below them.
RECURSIVE Subtree(_)
Subtree(F) ==
    LET below == F \cup UNION {{x \in Children(c) : invocations[x] \in Unfinished} : c \in F}
    IN  IF below = F THEN F ELSE Subtree(below)

\* The cancelled tasks end with CancelledError: each leaves its ExitStack,
\* which hands the exception to the waiters of its entry, and the one inside
\* `async with context.session_id` leaves the lock.
CancelInvocations(kill, into) ==
    [x \in Invocations |-> IF x \in kill THEN "cancelled" ELSE into[x]]

CancelEntries(kill, map) ==
    [n \in DOMAIN map |->
        IF \E x \in kill : Node(x) = n /\ invocations[x] \in Owning
        THEN Exited(map[n], "CancelledError") ELSE map[n]]

CancelLock(kill, lock) ==
    IF \E x \in kill : invocations[x] \in {"creating session", "creating"}
    THEN [lock EXCEPT !.state = "released"] ELSE lock

\* The client calls invoke_node(node) with context None.
InvokeNode ==
    \E id \in CallIds :
        /\ \A c \in Invocations : invocations[c] = "none"
        /\ invocations' = [invocations EXCEPT ![<<"client", id>>] = "spawned"]
        /\ session_id' = [value |-> CHOOSE s \in SessionIds : s \notin DOMAIN sessions, state |-> "unused"]
        /\ UNCHANGED <<dbVars, callVars, calls, queue, broadcasts, created_nodes, creates, workerVars, localVars, buildVars, otherVars>>

\* The coroutine runs from its first line to its first await: either the wait
\* on the event another invocation put in the map, or the gather, which makes
\* a task per dependency that is not yet in the map.
Enter ==
    \E c \in Invocations :
        /\ invocations[c] = "spawned"
        /\ IF IsCreated(created_nodes, Node(c))
           THEN /\ invocations' = [invocations EXCEPT ![c] = "waiting"]
                /\ UNCHANGED created_nodes
           ELSE LET map == (Node(c) :> "unset") @@ created_nodes
                    spawn == {<<Node(c), g>> : g \in DOMAIN CallDependencies(Node(c)) \ DOMAIN map}
                IN  /\ created_nodes' = map
                    /\ invocations' = [x \in Invocations |->
                                          IF x = c THEN "gathering"
                                          ELSE IF x \in spawn THEN "spawned"
                                          ELSE invocations[x]]
        /\ UNCHANGED <<dbVars, callVars, calls, queue, broadcasts, session_id, creates, workerVars, localVars, buildVars, otherVars>>

\* is_created.wait() returns the session id, or raises what the creator raised.
AwaitCreated ==
    \E c \in Invocations :
        /\ invocations[c] = "waiting"
        /\ created_nodes[Node(c)] # "unset"
        /\ invocations' = [invocations EXCEPT ![c] = IF created_nodes[Node(c)] = "set" THEN "returned" ELSE "raised"]
        /\ creates' = IF created_nodes[Node(c)] = "set" THEN creates
                      ELSE [creates EXCEPT !.raised[c] = created_nodes[Node(c)]]
        /\ UNCHANGED <<dbVars, callVars, calls, queue, broadcasts, created_nodes, session_id, workerVars, localVars, buildVars, otherVars>>

\* gather returns once every dependency's event is set.  When one of its
\* tasks has raised, the TaskGroup cancels the others and gather raises the
\* group of exceptions; the ExitStack then hands it to the waiters of this
\* node's event.
AwaitDependencies ==
    \E c \in Invocations :
        /\ invocations[c] = "gathering"
        /\ LET deps == DOMAIN CallDependencies(Node(c))
               raised == {g \in deps : /\ g \in DOMAIN created_nodes
                                       /\ IsException(created_nodes[g])
                                       /\ invocations[<<Node(c), g>>] \in {"none", "raised"}}
               kill == Subtree({x \in Children(c) : invocations[x] \in Unfinished})
           IN  IF raised # {}
               THEN /\ invocations' = CancelInvocations(kill, [invocations EXCEPT ![c] = "raised"])
                    /\ created_nodes' = CancelEntries(kill, [created_nodes EXCEPT ![Node(c)] = Exited(@, "ExceptionGroup")])
                    /\ session_id' = CancelLock(kill, session_id)
                    /\ creates' = [creates EXCEPT !.raised[c] = "ExceptionGroup"]
               ELSE /\ DependenciesCreated(created_nodes, deps)
                    /\ \A g \in deps : g \in DOMAIN created_nodes => ~IsException(created_nodes[g])
                    /\ invocations' = [invocations EXCEPT ![c] = "locking"]
                    /\ UNCHANGED <<created_nodes, session_id, creates>>
        /\ UNCHANGED <<dbVars, callVars, calls, queue, broadcasts, workerVars, localVars, buildVars, otherVars>>

\* async with context.session_id: the first to enter holds the lock and is the
\* one to create the session; the others wait until it has left.  Then
\* storage.create_node is called.
IssueCreateNode ==
    \E c \in Invocations :
        /\ invocations[c] = "locking"
        /\ Enterable(session_id)
        /\ invocations' = [invocations EXCEPT ![c] = IF IsSessionCreated(session_id)
                                                     THEN "creating" ELSE "creating session"]
        /\ session_id' = [session_id EXCEPT !.state = IF @ = "unused" THEN "held" ELSE @]
        /\ creates' = [creates EXCEPT !.issued[Node(c)] = @ + 1,
                                      !.with_session = IF IsSessionCreated(session_id)
                                                       THEN @ ELSE @ \cup {Node(c)}]
        /\ UNCHANGED <<dbVars, callVars, calls, queue, broadcasts, created_nodes, workerVars, localVars, buildVars, otherVars>>

\* storage.create_node returns or raises; the lock is left; is_created is set
\* with the session id, or with the exception.
ReturnCreateNode ==
    \E c \in Invocations :
        /\ invocations[c] \in {"creating session", "creating"}
        /\ LET r == PgCreateNode(Db, RootNode(Node(c)), RootGraph(Node(c), session_id.value),
                                 IF invocations[c] = "creating session"
                                 THEN [id |-> session_id.value] ELSE NoSession)
           IN  /\ StorageCreateNode(r, RootNode(Node(c)))
               /\ invocations' = [invocations EXCEPT ![c] = IF r.raised # "none" THEN "raised"
                                                            ELSE IF r.is_ready THEN "publishing"
                                                            ELSE "returned"]
               /\ created_nodes' = [created_nodes EXCEPT ![Node(c)] = IF r.raised # "none"
                                                                      THEN Exited(@, r.raised) ELSE "set"]
               /\ creates' = IF r.raised # "none" THEN [creates EXCEPT !.raised[c] = r.raised]
                             ELSE [creates EXCEPT !.returned = @ \cup {Node(c)}]
        /\ session_id' = [session_id EXCEPT !.state = "released"]
        /\ UNCHANGED <<calls, queue, broadcasts, workerVars, localVars, buildVars, otherVars>>

\* broker.publish_node_enqueued for a node admitted ready.
PublishNodeEnqueued ==
    \E c \in Invocations :
        /\ invocations[c] = "publishing"
        /\ queue' = [queue EXCEPT ![Node(c)] = @ + 1]
        /\ invocations' = [invocations EXCEPT ![c] = "returned"]
        /\ UNCHANGED <<dbVars, callVars, calls, broadcasts, created_nodes, session_id, creates, workerVars, localVars, buildVars, otherVars>>

NextOrch ==
    \/ InvokeNode
    \/ Enter
    \/ AwaitCreated
    \/ AwaitDependencies
    \/ IssueCreateNode
    \/ ReturnCreateNode
    \/ PublishNodeEnqueued

SpecOrch == Init /\ [][NextOrch]_vars

(***************************************************************************)
(* SpecAdmit: one orchestration in which storage.create_node can fail and  *)
(* the client can cancel its call.  The coroutines are tasks of the event  *)
(* loop, which runs every task that can run.                               *)
(***************************************************************************)
\* storage.create_node raises without having written anything (the
\* connection is lost, the statement times out).
CreateNodeFails ==
    \E c \in Invocations :
        /\ invocations[c] \in {"creating session", "creating"}
        /\ invocations' = [invocations EXCEPT ![c] = "raised"]
        /\ created_nodes' = [created_nodes EXCEPT ![Node(c)] = Exited(@, "StorageError")]
        /\ creates' = [creates EXCEPT !.raised[c] = "StorageError"]
        /\ session_id' = [session_id EXCEPT !.state = "released"]
        /\ UNCHANGED <<dbVars, callVars, calls, queue, broadcasts, workerVars, localVars, buildVars, otherVars>>

\* The client cancels the task of its invoke_node call.
ClientCancels ==
    \E c \in Invocations :
        /\ c[1] = "client"
        /\ invocations[c] \in Unfinished
        /\ invocations' = CancelInvocations(Subtree({c}), invocations)
        /\ created_nodes' = CancelEntries(Subtree({c}), created_nodes)
        /\ session_id' = CancelLock(Subtree({c}), session_id)
        /\ UNCHANGED <<dbVars, callVars, calls, queue, broadcasts, creates, workerVars, localVars, buildVars, otherVars>>

NextAdmit ==
    \/ InvokeNode
    \/ Enter
    \/ AwaitCreated
    \/ AwaitDependencies
    \/ IssueCreateNode
    \/ ReturnCreateNode
    \/ PublishNodeEnqueued
    \/ CreateNodeFails
    \/ ClientCancels

SpecAdmit ==
    /\ Init
    /\ [][NextAdmit]_vars
    /\ WF_vars(Enter)
    /\ WF_vars(AwaitCreated)
    /\ WF_vars(AwaitDependencies)
    /\ WF_vars(IssueCreateNode)
    /\ WF_vars(ReturnCreateNode)
    /\ WF_vars(PublishNodeEnqueued)

(***************************************************************************)
(* SpecWorker: one worker process serving the session that the             *)
(* orchestration of n3 has admitted.  Interactor.on_node_enqueued runs     *)
(* once per delivery: the parent coroutine opens a TaskGroup with a task   *)
(* waiting on the session's cancellation event and a task running          *)
(* __execute_node, and waits for the first of them.  Each coroutine gives  *)
(* way only at its awaits, so the steps below are the stretches between    *)
(* awaits.                                                                 *)
(***************************************************************************)
\* The tables once invoke_node(n3) has returned and nothing has run yet.
AdmittedDb ==
    LET d1 == PgCreateNode(EmptyDb, RootNode("n1"), RootGraph("n1", "s1"), [id |-> "s1"]).db
        d2 == PgCreateNode(d1, RootNode("n2"), RootGraph("n2", "s1"), NoSession).db
    IN  PgCreateNode(d2, RootNode("n3"), RootGraph("n3", "s1"), NoSession).db

InitAdmitted ==
    /\ DbIs(AdmittedDb)
    /\ InitCalls
    /\ admission = [n \in CallIds \cup SpliceIds |->
                        IF n \in NodeIds THEN AdmittedDb.nodes[n].pending_dependency_count ELSE -1]
    /\ queue = [n \in CallIds \cup SpliceIds |->
                    IF n \in NodeIds /\ AdmittedDb.nodes[n].pending_dependency_count = 0 THEN 1 ELSE 0]
    /\ InitBroker
    /\ InitOrchestration
    /\ InitWorker
    /\ InitLocal
    /\ InitNodeCalls
    /\ InitMessages
    /\ InitTransactions
    /\ InitExecutions

\* What a handler can do: return a value, return the pause marker, return
\* another call, raise, or outlive the timeout of asyncio.wait_for.
HandlerOutcomes == {"value", "pause", "call", "exception", "timeout"}

\* The positions at which the __execute_node task is suspended at an await.
Running == {"start_node", "handler", "complete_node", "create_node", "publish"}

\* The CreatedNode that invoke_node(result, is_first_node=False, context)
\* builds for the call b returned by the handler of delivery d; the call has
\* no dependencies of its own.
SplicedNode(d, b) ==
    [id |-> b, parent_id |-> worker[d].node, graph_id |-> nodes[worker[d].node].graph_id,
     dependencies |-> [g \in {} |-> TRUE]]

\* Task.cancel() on the __execute_node task.
CancelTask(pc) == IF pc \in Running THEN "cancelled" ELSE pc

Unsubscribed_AlwaysPop(map, s) == [x \in DOMAIN map \ {s} |-> map[x]]

\* EventWithSubscribers.__exit__ and the finally clause of on_node_enqueued.
Unsubscribed(map, s) ==
    IF map[s].subscriber_count = 1
    THEN [x \in DOMAIN map \ {s} |-> map[x]]
    ELSE [map EXCEPT ![s].subscriber_count = @ - 1]

\* The __execute_node task of delivery d ends with an exception: the TaskGroup
\* cancels the parent that is waiting inside it.
Raised(d) ==
    /\ worker' = [worker EXCEPT ![d].exec = "raised",
                                ![d].parent = IF @ = "waiting" THEN "cancel requested" ELSE @]
    /\ trace' = [trace EXCEPT ![d].set_at_raise = SESSIONS[worker[d].session_id].is_set]

\* The broker delivers a "node enqueued" message; on_node_enqueued runs up
\* to asyncio.wait.
Deliver ==
    \E d \in Deliveries, n \in DOMAIN queue :
        /\ worker[d].parent = "idle"
        /\ \E i \in DOMAIN DeliveryOrder :
               /\ DeliveryOrder[i] = d
               /\ \A j \in 1..(i - 1) : worker[DeliveryOrder[j]].parent # "idle"
        /\ queue[n] > 0
        /\ queue' = [queue EXCEPT ![n] = @ - 1]
        /\ LET s == graphs[nodes[n].graph_id].session_id
               event == IF s \in DOMAIN SESSIONS THEN SESSIONS[s]
                        ELSE [is_set |-> FALSE, subscriber_count |-> 0]
           IN  /\ SESSIONS' = (s :> [event EXCEPT !.subscriber_count = @ + 1]) @@ SESSIONS
               /\ worker' = [worker EXCEPT ![d] = [node |-> n, session_id |-> s, parent |-> "waiting",
                                                   exec |-> "start_node", result |-> NULL, ready |-> {}]]
        /\ UNCHANGED <<dbVars, callVars, calls, broadcasts, orchVars, trace, localVars, buildVars, otherVars>>

\* storage.start_node returns or raises.
ExecStartNode ==
    \E d \in Deliveries :
        /\ worker[d].exec = "start_node"
        /\ LET r == PgStartNode(Db, worker[d].node)
           IN  /\ StorageStartNode(r, worker[d].node)
               /\ IF r.raised = "none"
                  THEN worker' = [worker EXCEPT ![d].exec = "handler"] /\ UNCHANGED trace
                  ELSE Raised(d)
        /\ UNCHANGED <<calls, queue, broadcasts, orchVars, SESSIONS, localVars, buildVars, otherVars>>

AfterHandler_PauseCompletes(outcome) ==
    CASE outcome \in {"value", "pause"} -> "complete_node"
      [] outcome = "call" -> "create_node"
      [] OTHER -> "raised"

\* Where __execute_node goes once executor.execute_node has ended: on to
\* Interactor.complete_node for a CompletedNode, to its return for None (the
\* pause marker), on to invoke_node for an InvokedNode; an exception or a
\* timeout ends the task.
AfterHandler(outcome) ==
    CASE outcome = "value" -> "complete_node"
      [] outcome = "pause" -> "returned"
      [] outcome = "call" -> "create_node"
      [] OTHER -> "raised"

\* executor.execute_node returns or raises.
HandlerReturns ==
    \E d \in Deliveries, outcome \in HandlerOutcomes, result \in Results, b \in SpliceIds :
        LET pc == AfterHandler(outcome)
        IN  /\ worker[d].exec = "handler"
            /\ worker' = [worker EXCEPT ![d].exec = pc,
                                        ![d].result = IF pc = "complete_node" THEN result ELSE @,
                                        ![d].parent = IF pc = "raised" /\ @ = "waiting"
                                                      THEN "cancel requested" ELSE @]
            /\ trace' = [trace EXCEPT ![d].outcome = outcome,
                                      ![d].complete_calls = IF pc = "complete_node" THEN @ + 1 ELSE @,
                                      ![d].spliced = IF pc = "create_node" THEN b ELSE @,
                                      ![d].set_at_raise = IF pc = "raised"
                                                          THEN SESSIONS[worker[d].session_id].is_set ELSE @]
            /\ UNCHANGED <<dbVars, callVars, calls, queue, broadcasts, orchVars, SESSIONS, localVars, buildVars, otherVars>>

\* The splice: storage.create_node for the returned call, with the running
\* node as its parent and no graph, returns is_ready or raises.
ExecCreateNode ==
    \E d \in Deliveries :
        /\ worker[d].exec = "create_node"
        /\ LET node == SplicedNode(d, trace[d].spliced)
               r == PgCreateNode(Db, node, NoGraph, NoSession)
           IN  /\ StorageCreateNode(r, node)
               /\ IF r.raised = "none"
                  THEN /\ worker' = [worker EXCEPT ![d].exec = IF r.is_ready THEN "publish" ELSE "returned",
                                                   ![d].ready = IF r.is_ready THEN {node.id} ELSE {}]
                       /\ UNCHANGED trace
                  ELSE Raised(d)
        /\ UNCHANGED <<calls, queue, broadcasts, orchVars, SESSIONS, localVars, buildVars, otherVars>>

\* storage.complete_node returns the ready nodes or raises; with nothing to
\* publish Interactor.complete_node returns at once.
ExecCompleteNode ==
    \E d \in Deliveries :
        /\ worker[d].exec = "complete_node"
        /\ LET r == PgCompleteNode(Db, worker[d].node, worker[d].result)
           IN  /\ StorageCompleteNode(r, worker[d].node)
               /\ IF r.raised = "none"
                  THEN /\ worker' = [worker EXCEPT ![d].exec = IF r.ready_nodes = {} THEN "returned" ELSE "publish",
                                                   ![d].ready = r.ready_nodes]
                       /\ UNCHANGED trace
                  ELSE Raised(d)
        /\ UNCHANGED <<calls, queue, broadcasts, orchVars, SESSIONS, localVars, buildVars, otherVars>>

\* gather(map(publish_node_enqueued, ready_nodes)) returns.
ExecPublish ==
    \E d \in Deliveries :
        /\ worker[d].exec = "publish"
        /\ queue' = [n \in DOMAIN queue |-> IF n \in worker[d].ready THEN queue[n] + 1 ELSE queue[n]]
        /\ worker' = [worker EXCEPT ![d].exec = "returned"]
        /\ trace' = [trace EXCEPT ![d].published = @ \cup worker[d].ready]
        /\ UNCHANGED <<dbVars, callVars, calls, broadcasts, orchVars, SESSIONS, localVars, buildVars, otherVars>>

\* asyncio.wait has returned and the parent runs on to its return: the cancel
\* branch if the event is set, else `await on_node_enqueued_task` with its
\* except branch, then the finally clause.
ParentResume ==
    \E d \in Deliveries :
        LET s == worker[d].session_id
            r == PgCancelSession(Db, s)
        IN  /\ worker[d].parent = "waiting"
            /\ SESSIONS[s].is_set \/ worker[d].exec \in {"returned", "raised"}
            /\ SESSIONS' = Unsubscribed(SESSIONS, s)
            /\ IF SESSIONS[s].is_set
               THEN /\ worker' = [worker EXCEPT ![d].parent = "returned", ![d].exec = CancelTask(@)]
                    /\ trace' = [trace EXCEPT ![d].cancelled_in =
                                    IF worker[d].exec \in Running THEN worker[d].exec ELSE @]
                    /\ UNCHANGED <<dbVars, callVars, broadcasts>>
               ELSE IF worker[d].exec = "raised"
               THEN /\ StorageCancelSession(r, s)
                    /\ broadcasts' = broadcasts \cup {s}
                    /\ worker' = [worker EXCEPT ![d].parent = "returned"]
                    /\ trace' = [trace EXCEPT ![d].cancel_calls = @ + 1]
               ELSE /\ worker' = [worker EXCEPT ![d].parent = "returned"]
                    /\ UNCHANGED <<dbVars, callVars, broadcasts, trace>>
            /\ UNCHANGED <<calls, queue, orchVars, localVars, buildVars, otherVars>>

\* The cancelled parent leaves the TaskGroup, which raises the group of the
\* task's exceptions out of on_node_enqueued, through the finally clause.
TaskGroupAbort ==
    \E d \in Deliveries :
        /\ worker[d].parent = "cancel requested"
        /\ worker' = [worker EXCEPT ![d].parent = "failed"]
        /\ SESSIONS' = Unsubscribed(SESSIONS, worker[d].session_id)
        /\ UNCHANGED <<dbVars, callVars, calls, queue, broadcasts, orchVars, trace, localVars, buildVars, otherVars>>

\* The worker receives a "session cancelled" broadcast.
OnSessionCancelled ==
    \E s \in broadcasts :
        /\ broadcasts' = broadcasts \ {s}
        /\ SESSIONS' = IF s \in DOMAIN SESSIONS THEN [SESSIONS EXCEPT ![s].is_set = TRUE] ELSE SESSIONS
        /\ trace' = [d \in Deliveries |->
                        IF /\ s \in DOMAIN SESSIONS
                           /\ worker[d].session_id = s
                           /\ worker[d].parent = "waiting"
                           /\ worker[d].exec = "handler"
                        THEN [trace[d] EXCEPT !.set_in_handler = TRUE]
                        ELSE trace[d]]
        /\ UNCHANGED <<dbVars, callVars, calls, queue, orchVars, worker, localVars, buildVars, otherVars>>

\* A client calls Interactor.cancel_session: storage.cancel_session and
\* broker.publish_session_cancelled run side by side; when the storage call
\* raises, the publish task is cancelled, having sent its message or not.
ClientCancelSession ==
    \E s \in SessionIds, sent \in BOOLEAN :
        LET r == PgCancelSession(Db, s)
        IN  /\ r.raised = "none" => sent
            /\ StorageCancelSession(r, s)
            /\ broadcasts' = IF sent THEN broadcasts \cup {s} ELSE broadcasts
            /\ UNCHANGED <<calls, queue, orchVars, workerVars, localVars, buildVars, otherVars>>

NextWorker ==
    \/ Deliver
    \/ ExecStartNode
    \/ HandlerReturns
    \/ ExecCompleteNode
    \/ ExecCreateNode
    \/ ExecPublish
    \/ ParentResume
    \/ TaskGroupAbort
    \/ OnSessionCancelled
    \/ ClientCancelSession

SpecWorker == InitAdmitted /\ [][NextWorker]_vars


(***************************************************************************)
(* LocalStorage: the in-memory storage behind GraphsInteractor.  Its       *)
(* coroutines never suspend, so each call is one atomic step.  A storage   *)
(* value is [graphs, nodes]; a graph is [result, status,                   *)
(* dependent_graph_id, dependent_node_ids] and a node is [id, graph_id,    *)
(* handler_id, arguments, dependencies], the last two keyed by argument    *)
(* position.                                                               *)
(***************************************************************************)
LocalDb == [graphs |-> lgraphs, nodes |-> lnodes]

\* dict.__setitem__: insert or replace.
Put(f, k, v) == [x \in DOMAIN f \cup {k} |-> IF x = k THEN v ELSE f[x]]

\* The keys of a dict of positional arguments, in insertion order.
KeyOrder(f) ==
    [i \in 1..Cardinality(DOMAIN f) |->
        CHOOSE k \in DOMAIN f : Cardinality({j \in DOMAIN f : j < k}) = i - 1]

LsCreateGraph(st, id) ==
    [st EXCEPT !.graphs = Put(@, id, [result |-> NULL, status |-> "created",
                                      dependent_graph_id |-> NULL, dependent_node_ids |-> {}])]

\* The loop of create_node over dependencies.items().
RECURSIVE LsAddDependencies(_, _, _, _)
LsAddDependencies(gs, node, deps, keys) ==
    IF keys = <<>>
    THEN [graphs |-> gs, node |-> node, raised |-> "none"]
    ELSE LET key == Head(keys)
             g == deps[key]
         IN  IF gs[g].status = "cancelled"
             THEN [graphs |-> gs, node |-> node, raised |-> "RuntimeError"]
             ELSE IF gs[g].status = "completed"
             THEN LsAddDependencies(gs, [node EXCEPT !.arguments = Put(@, key, gs[g].result)],
                                    deps, Tail(keys))
             ELSE LsAddDependencies([gs EXCEPT ![g].dependent_node_ids = @ \cup {node.id}],
                                    [node EXCEPT !.dependencies = Put(@, key, g)],
                                    deps, Tail(keys))

LsCreateNode(st, id, graph_id, handler_id, arguments, deps) ==
    IF st.graphs[graph_id].status # "created"
    THEN [st |-> st, raised |-> "RuntimeError", is_ready |-> FALSE]
    ELSE LET node == [id |-> id, graph_id |-> graph_id, handler_id |-> handler_id,
                      arguments |-> arguments, dependencies |-> <<>>]
             r == LsAddDependencies(st.graphs, node, deps, KeyOrder(deps))
         IN  IF r.raised # "none"
             THEN [st |-> [st EXCEPT !.graphs = r.graphs], raised |-> r.raised, is_ready |-> FALSE]
             ELSE [st |-> [graphs |-> r.graphs, nodes |-> Put(st.nodes, id, r.node)],
                   raised |-> "none",
                   is_ready |-> DOMAIN r.node.dependencies = {}]

\* The dependents of a graph and of the graphs chained to it by
\* dependent_graph_id.
RECURSIVE ChainDependents(_, _)
ChainDependents(gs, g) ==
    IF g = NULL THEN {}
    ELSE gs[g].dependent_node_ids \cup ChainDependents(gs, gs[g].dependent_graph_id)

\* resolved_dependencies: the keys of the node that wait for graph id.
ResolvedDependencies(node, id) == {k \in DOMAIN node.dependencies : node.dependencies[k] = id}

LsReadyNodes_All(ns, dependents) == dependents

\* ready_nodes: the dependents left without dependencies.
LsReadyNodes(ns, dependents) == {n \in dependents : DOMAIN ns[n].dependencies = {}}

LsMarkGraphCompleted(st, id, result) ==
    LET gs1 == [st.graphs EXCEPT ![id].result = result, ![id].status = "completed"]
        dependents == ChainDependents(gs1, id)
        resolve(node) ==
            LET resolved == ResolvedDependencies(node, id)
            IN  [node EXCEPT !.arguments = [k \in DOMAIN node.arguments \cup resolved |->
                                               IF k \in resolved THEN result ELSE node.arguments[k]],
                             !.dependencies = [k \in DOMAIN node.dependencies \ resolved |->
                                                  node.dependencies[k]]]
        ns1 == [n \in DOMAIN st.nodes |-> IF n \in dependents THEN resolve(st.nodes[n]) ELSE st.nodes[n]]
    IN  [st |-> [graphs |-> gs1, nodes |-> ns1],
         ready_nodes |-> LsReadyNodes(ns1, dependents),
         cancelled_graphs |-> {}]

\* The graphs that mark_graph_cancelled(id) visits: id, its dependent graph
\* and the graphs of its dependent nodes, recursively.
RECURSIVE CancelledFrom(_, _)
CancelledFrom(st, id) ==
    {id} \cup (IF st.graphs[id].dependent_graph_id # NULL
               THEN CancelledFrom(st, st.graphs[id].dependent_graph_id) ELSE {})
         \cup UNION {CancelledFrom(st, st.nodes[n].graph_id) : n \in st.graphs[id].dependent_node_ids}

LsMarkGraphCancelled(st, id) ==
    LET ids == CancelledFrom(st, id)
    IN  [st |-> [graphs |-> [g \in DOMAIN st.graphs |->
                                IF g \in ids THEN [st.graphs[g] EXCEPT !.status = "cancelled"]
                                ELSE st.graphs[g]],
                 nodes |-> st.nodes],
         ready_nodes |-> {},
         cancelled_graphs |-> ids]

LsLinkGraphs_Overwrite(st, dependent_id, dependency_id) ==
    LET dependency_graph == st.graphs[dependency_id]
    IN  IF dependency_graph.status = "completed"
        THEN LsMarkGraphCompleted(st, dependent_id, dependency_graph.result) @@ [raised |-> "none"]
        ELSE IF dependency_graph.status = "cancelled"
        THEN LsMarkGraphCancelled(st, dependent_id) @@ [raised |-> "none"]
        ELSE [st |-> [st EXCEPT !.graphs[dependency_id].dependent_graph_id = dependent_id],
              ready_nodes |-> {}, cancelled_graphs |-> {}, raised |-> "none"]

LsLinkGraphs(st, dependent_id, dependency_id) ==
    LET dependency_graph == st.graphs[dependency_id]
    IN  IF dependency_graph.status = "completed"
        THEN LsMarkGraphCompleted(st, dependent_id, dependency_graph.result) @@ [raised |-> "none"]
        ELSE IF dependency_graph.status = "cancelled"
        THEN LsMarkGraphCancelled(st, dependent_id) @@ [raised |-> "none"]
        ELSE IF dependency_graph.dependent_graph_id \notin {NULL, dependent_id}
        THEN [st |-> st, ready_nodes |-> {}, cancelled_graphs |-> {}, raised |-> "RuntimeError"]
        ELSE [st |-> [st EXCEPT !.graphs[dependency_id].dependent_graph_id = dependent_id],
              ready_nodes |-> {}, cancelled_graphs |-> {}, raised |-> "none"]

(***************************************************************************)
(* SpecLocal: GraphsInteractor over LocalStorage.  A client executes the   *)
(* call r(p, a, w(p)), where p is a pause call; the handler of a may       *)
(* submit the call b in the background and may return b in place of a      *)
(* value.  A graph takes the id of the call it was created for.            *)
(***************************************************************************)
\* Call.handler_id: None for a pause call.
CallHandler(c) == IF c = "p" THEN NULL ELSE c

\* Call.arguments, all of them calls, by position.
CallArguments(c) ==
    CASE c = "r" -> <<"p", "a", "w">>
      [] c = "w" -> <<"p">>
      [] OTHER -> <<>>

\* What the handlers of SpecLocal return when they return a value.
HandlerResults == {"r1"}

\* The client makes at most MaxClientCalls calls of resume and cancel.
MaxClientCalls == 1

\* GraphsInteractor.__orchestrate_call, over o = [st, orchestrated_calls,
\* published, raised, graph_id]: the storage, the calls orchestrated so far
\* with their graphs, the nodes published, and the graph id returned.
RECURSIVE OrchestrateCall(_, _, _, _)
RECURSIVE OrchestrateArguments(_, _, _, _, _)
OrchestrateArguments(o, graph_id, arguments, key, deps) ==
    IF key > Len(arguments) \/ o.raised # "none"
    THEN [o |-> o, dependencies |-> deps]
    ELSE LET o1 == OrchestrateCall(o, graph_id, arguments[key], TRUE)
         IN  OrchestrateArguments(o1, graph_id, arguments, key + 1, Put(deps, key, o1.graph_id))

OrchestrateCall(o, graph_id, call, is_dependency) ==
    IF call \in DOMAIN o.orchestrated_calls
    THEN [o EXCEPT !.graph_id = o.orchestrated_calls[call]]
    ELSE LET g == IF is_dependency THEN call ELSE graph_id
             o1 == IF is_dependency THEN [o EXCEPT !.st = LsCreateGraph(@, g)] ELSE o
             a == OrchestrateArguments(o1, g, CallArguments(call), 1, <<>>)
             r == LsCreateNode(a.o.st, call, g, CallHandler(call), <<>>, a.dependencies)
         IN  IF a.o.raised # "none"
             THEN a.o
             ELSE [st |-> r.st,
                   orchestrated_calls |-> Put(a.o.orchestrated_calls, call, g),
                   published |-> IF r.raised = "none" /\ CallHandler(call) # NULL /\ r.is_ready
                                 THEN a.o.published \cup {call} ELSE a.o.published,
                   raised |-> r.raised,
                   graph_id |-> g]

Orchestration(st, orchestrated_calls) ==
    [st |-> st, orchestrated_calls |-> orchestrated_calls, published |-> {}, raised |-> "none",
     graph_id |-> NULL]

\* GraphsInteractor.__process_node_result for a node of graph_id: the
\* storage, the nodes to publish, the graphs to announce as cancelled.
ProcessNodeResult(st, graph_id, kind, result, orchestrated_calls) ==
    IF kind = "exception"
    THEN LsMarkGraphCancelled(st, graph_id) @@ [raised |-> "none"]
    ELSE IF kind = "value"
    THEN LsMarkGraphCompleted(st, graph_id, result) @@ [raised |-> "none"]
    ELSE LET o == OrchestrateCall(Orchestration(st, orchestrated_calls), graph_id, result, FALSE)
             l == LsLinkGraphs(o.st, graph_id, o.graph_id)
         IN  IF o.raised # "none"
             THEN [st |-> o.st, ready_nodes |-> o.published, cancelled_graphs |-> {}, raised |-> o.raised]
             ELSE IF graph_id = o.graph_id
             THEN [st |-> o.st, ready_nodes |-> o.published, cancelled_graphs |-> {}, raised |-> "none"]
             ELSE [st |-> l.st, ready_nodes |-> o.published \cup l.ready_nodes,
                   cancelled_graphs |-> l.cancelled_graphs, raised |-> l.raised]

SetLocalDb(st) ==
    /\ lgraphs' = st.graphs
    /\ lnodes' = st.nodes

\* broker.publish_node_enqueued for each node of ns.
PublishNodes(ns) ==
    /\ lqueue' = [n \in LocalCalls |-> IF n \in ns THEN lqueue[n] + 1 ELSE lqueue[n]]
    /\ lpublished' = [n \in LocalCalls |-> IF n \in ns THEN lpublished[n] + 1 ELSE lpublished[n]]

\* The client calls execute(r): orchestrate_call creates the root graph and
\* orchestrates the call and its arguments.
Execute ==
    /\ "r" \notin DOMAIN lnodes
    /\ LET o == OrchestrateCall(Orchestration(LsCreateGraph(LocalDb, "r"), <<>>), "r", "r", FALSE)
       IN  /\ SetLocalDb(o.st)
           /\ PublishNodes(o.published)
    /\ UNCHANGED <<lcancelled, RUNNING_GRAPHS, lrun, llast, engineVars, buildVars, otherVars>>

\* The broker delivers a "node enqueued" message: on_node_enqueued reads the
\* node and __execute_node starts its handler.  The runs of one node follow
\* one another.
OnNodeEnqueued ==
    \E n \in LocalCalls :
        /\ lqueue[n] > 0
        /\ lrun[n].pc # "handler"
        /\ lqueue' = [lqueue EXCEPT ![n] = @ - 1]
        /\ IF lnodes[n].handler_id = NULL
           THEN UNCHANGED <<lrun, RUNNING_GRAPHS>>
           ELSE /\ lrun' = [lrun EXCEPT ![n] = [pc |-> "handler", orchestrated_calls |-> <<>>]]
                /\ RUNNING_GRAPHS' = IF lnodes[n].graph_id \in DOMAIN RUNNING_GRAPHS
                                     THEN RUNNING_GRAPHS
                                     ELSE Put(RUNNING_GRAPHS, lnodes[n].graph_id, FALSE)
        /\ UNCHANGED <<lgraphs, lnodes, lpublished, lcancelled, llast, engineVars, buildVars, otherVars>>

\* The running handler of a calls Context.submit(b): b is orchestrated in
\* the background as a dependency, in a graph of its own.
SubmitCall ==
    \E n \in {"a"} :
        /\ lrun[n].pc = "handler"
        /\ "b" \notin DOMAIN lrun[n].orchestrated_calls
        /\ LET o == OrchestrateCall(Orchestration(LocalDb, lrun[n].orchestrated_calls),
                                    lnodes[n].graph_id, "b", TRUE)
           IN  /\ SetLocalDb(o.st)
               /\ PublishNodes(o.published)
               /\ lrun' = [lrun EXCEPT ![n].orchestrated_calls = o.orchestrated_calls]
        /\ UNCHANGED <<lcancelled, RUNNING_GRAPHS, llast, engineVars, buildVars, otherVars>>

\* asyncio.wait returns in __execute_node: the graph was cancelled, or the
\* handler returned a value, raised, or (the handler of a) returned the call
\* b; then __process_node_result and __process_node_callbacks.
NodeExecuted ==
    \E n \in LocalCalls, outcome \in {"value", "exception", "call"}, v \in HandlerResults :
        /\ lrun[n].pc = "handler"
        /\ outcome = "call" => n = "a"
        /\ LET g == lnodes[n].graph_id
               r == IF RUNNING_GRAPHS[g]
                    THEN ProcessNodeResult(LocalDb, g, "value", NULL, lrun[n].orchestrated_calls)
                    ELSE ProcessNodeResult(LocalDb, g, outcome, IF outcome = "call" THEN "b" ELSE v,
                                           lrun[n].orchestrated_calls)
           IN  /\ RUNNING_GRAPHS' = [x \in DOMAIN RUNNING_GRAPHS \ {g} |-> RUNNING_GRAPHS[x]]
               /\ SetLocalDb(r.st)
               /\ PublishNodes(r.ready_nodes)
               /\ lcancelled' = lcancelled \cup r.cancelled_graphs
               /\ lrun' = [lrun EXCEPT ![n].pc = IF r.raised = "none" THEN "done" ELSE "failed"]
        /\ UNCHANGED <<llast, engineVars, buildVars, otherVars>>

\* The client calls cancel(graph_id).
CancelGraph ==
    \E g \in DOMAIN lgraphs :
        /\ llast.calls < MaxClientCalls
        /\ LET r == LsMarkGraphCancelled(LocalDb, g)
           IN  /\ SetLocalDb(r.st)
               /\ lcancelled' = lcancelled \cup r.cancelled_graphs
        /\ llast' = [op |-> "cancel", id |-> g, result |-> NULL, calls |-> llast.calls + 1]
        /\ UNCHANGED <<lqueue, lpublished, RUNNING_GRAPHS, lrun, engineVars, buildVars, otherVars>>

\* The broker delivers a "graph cancelled" message.
OnGraphCancelled ==
    \E g \in lcancelled :
        /\ lcancelled' = lcancelled \ {g}
        /\ RUNNING_GRAPHS' = IF g \in DOMAIN RUNNING_GRAPHS THEN [RUNNING_GRAPHS EXCEPT ![g] = TRUE]
                             ELSE RUNNING_GRAPHS
        /\ UNCHANGED <<lgraphs, lnodes, lqueue, lpublished, lrun, llast, engineVars, buildVars, otherVars>>

\* The client calls resume(graph_id, result): submit_graph_result.
Resume ==
    \E g \in DOMAIN lgraphs, v \in Results :
        /\ llast.calls < MaxClientCalls
        /\ LET r == LsMarkGraphCompleted(LocalDb, g, v)
           IN  /\ SetLocalDb(r.st)
               /\ PublishNodes(r.ready_nodes)
        /\ llast' = [op |-> "resume", id |-> g, result |-> v, calls |-> llast.calls + 1]
        /\ UNCHANGED <<lcancelled, RUNNING_GRAPHS, lrun, engineVars, buildVars, otherVars>>

NextLocal ==
    \/ Execute
    \/ OnNodeEnqueued
    \/ SubmitCall
    \/ NodeExecuted
    \/ CancelGraph
    \/ OnGraphCancelled
    \/ Resume

SpecLocal == Init /\ [][NextLocal]_vars

(***************************************************************************)
(* SpecStorage: LocalStorage under the call sequences of its clients.      *)
(* Three graphs exist, created in the order of GraphOrder; the calls       *)
(* create_node, link_graphs, mark_graph_completed and mark_graph_cancelled *)
(* follow in any order.  As in GraphsInteractor the graph a node or a      *)
(* graph waits for was created after the waiting one (a dependency's graph *)
(* is created while its dependent is orchestrated, a returned call's graph *)
(* after the graph of the handler that returns it), so no graph waits for  *)
(* itself.                                                                 *)
(***************************************************************************)
GraphOrder == <<"g1", "g2", "g3">>

StoreGraphs == {GraphOrder[i] : i \in DOMAIN GraphOrder}

Rank(g) == CHOOSE i \in DOMAIN GraphOrder : GraphOrder[i] = g

\* Node ids, in the order they are drawn.
StoreNodes == <<"m1", "m2">>

\* The positions of a call's arguments that hold calls.
ArgumentKeys == {1, 2}

\* The storage calls after the graphs were created are at most
\* MaxStorageCalls.
MaxStorageCalls == 4

\* The dependencies mapping a client can pass for a node of graph g.
DependencyMaps(g) ==
    UNION {[keys -> {d \in StoreGraphs : Rank(d) > Rank(g)}] : keys \in SUBSET ArgumentKeys}

StoredDb ==
    LET s1 == LsCreateGraph([graphs |-> <<>>, nodes |-> <<>>], GraphOrder[1])
        s2 == LsCreateGraph(s1, GraphOrder[2])
    IN  LsCreateGraph(s2, GraphOrder[3])

InitStored ==
    /\ DbIs(EmptyDb)
    /\ InitCalls
    /\ admission = [n \in CallIds \cup SpliceIds |-> -1]
    /\ queue = [n \in CallIds \cup SpliceIds |-> 0]
    /\ InitBroker
    /\ InitOrchestration
    /\ InitWorker
    /\ lgraphs = StoredDb.graphs
    /\ lnodes = StoredDb.nodes
    /\ lqueue = [n \in LocalCalls |-> 0]
    /\ lpublished = [n \in LocalCalls |-> 0]
    /\ lcancelled = {}
    /\ RUNNING_GRAPHS = <<>>
    /\ lrun = [n \in LocalCalls |-> [pc |-> "none", orchestrated_calls |-> <<>>]]
    /\ llast = [op |-> "init", id |-> NULL, result |-> NULL, calls |-> 0]
    /\ InitNodeCalls
    /\ InitMessages
    /\ InitTransactions
    /\ InitExecutions

\* The node ids that some graph lists as dependents.
Registered(st) == UNION {st.graphs[g].dependent_node_ids : g \in DOMAIN st.graphs}

\* mark_graph_completed when create_node has left, by raising after it
\* registered the node, an id among the dependents that is not a node:
\* self.__nodes[id] raises KeyError once the loop over the set meets it, the
\* nodes met before it being resolved.  A set has no order to rely on.
LsMarkGraphCompletedOutcomes(st, id, result) ==
    LET gs1 == [st.graphs EXCEPT ![id].result = result, ![id].status = "completed"]
        dependents == ChainDependents(gs1, id)
        resolve(node) ==
            LET resolved == ResolvedDependencies(node, id)
            IN  [node EXCEPT !.arguments = [k \in DOMAIN node.arguments \cup resolved |->
                                               IF k \in resolved THEN result ELSE node.arguments[k]],
                             !.dependencies = [k \in DOMAIN node.dependencies \ resolved |->
                                                  node.dependencies[k]]]
    IN  IF dependents \subseteq DOMAIN st.nodes
        THEN {LsMarkGraphCompleted(st, id, result) @@ [raised |-> "none"]}
        ELSE {[st |-> [graphs |-> gs1,
                       nodes |-> [n \in DOMAIN st.nodes |->
                                     IF n \in met THEN resolve(st.nodes[n]) ELSE st.nodes[n]]],
               ready_nodes |-> {}, cancelled_graphs |-> {}, raised |-> "KeyError"] :
                 met \in SUBSET (dependents \cap DOMAIN st.nodes)}

\* mark_graph_cancelled, likewise: the recursion stops with KeyError at such
\* an id, the graphs visited before it staying cancelled.
RECURSIVE LsMarkGraphCancelledOutcomes(_, _)
RECURSIVE LsCancelDependentsOutcomes(_, _)
LsCancelDependentsOutcomes(o, remaining) ==
    IF o.raised # "none" \/ remaining = {}
    THEN {o}
    ELSE UNION {IF n \notin DOMAIN o.st.nodes
                THEN {[o EXCEPT !.raised = "KeyError", !.cancelled_graphs = {}]}
                ELSE UNION {LsCancelDependentsOutcomes(
                                [x EXCEPT !.cancelled_graphs = @ \cup o.cancelled_graphs],
                                remaining \ {n}) :
                              x \in LsMarkGraphCancelledOutcomes(o.st, o.st.nodes[n].graph_id)} :
                  n \in remaining}

LsMarkGraphCancelledOutcomes(st, id) ==
    LET st1 == [st EXCEPT !.graphs[id].status = "cancelled"]
        o1 == [st |-> st1, ready_nodes |-> {}, cancelled_graphs |-> {id}, raised |-> "none"]
        chained == IF st.graphs[id].dependent_graph_id = NULL
                   THEN {o1}
                   ELSE {[x EXCEPT !.cancelled_graphs = @ \cup {id}] :
                           x \in LsMarkGraphCancelledOutcomes(st1, st.graphs[id].dependent_graph_id)}
    IN  UNION {LsCancelDependentsOutcomes(x, st.graphs[id].dependent_node_ids) : x \in chained}

LsLinkGraphsOutcomes(st, dependent_id, dependency_id) ==
    LET dependency_graph == st.graphs[dependency_id]
    IN  IF dependency_graph.status = "completed"
        THEN LsMarkGraphCompletedOutcomes(st, dependent_id, dependency_graph.result)
        ELSE IF dependency_graph.status = "cancelled"
        THEN LsMarkGraphCancelledOutcomes(st, dependent_id)
        ELSE {LsLinkGraphs(st, dependent_id, dependency_id)}

\* A storage call returned or raised: what it left and what it gave back.
StorageCalled(op, id, other, result, r) ==
    /\ llast.calls < MaxStorageCalls
    /\ SetLocalDb(r.st)
    /\ llast' = [op |-> op, id |-> id, other |-> other, result |-> result, calls |-> llast.calls + 1,
                 raised |-> r.raised, ready_nodes |-> r.ready_nodes,
                 cancelled_graphs |-> r.cancelled_graphs]
    /\ UNCHANGED <<lqueue, lpublished, lcancelled, RUNNING_GRAPHS, lrun, engineVars, buildVars, otherVars>>

\* A client admits a node under a fresh id.
StoreCreateNode ==
    \E g \in StoreGraphs : \E deps \in DependencyMaps(g) :
        LET used == {i \in DOMAIN StoreNodes : StoreNodes[i] \in DOMAIN lnodes \cup Registered(LocalDb)}
        IN  /\ Cardinality(used) < Len(StoreNodes)
            /\ LET id == StoreNodes[Cardinality(used) + 1]
                   r == LsCreateNode(LocalDb, id, g, id, <<>>, deps)
               IN  StorageCalled("create_node", id, g, NULL,
                                 [st |-> r.st, raised |-> r.raised,
                                  ready_nodes |-> IF r.raised = "none" /\ r.is_ready THEN {id} ELSE {},
                                  cancelled_graphs |-> {}])

StoreLinkGraphs ==
    \E dependent_id, dependency_id \in StoreGraphs :
        /\ Rank(dependent_id) < Rank(dependency_id)
        /\ \E r \in LsLinkGraphsOutcomes(LocalDb, dependent_id, dependency_id) :
               StorageCalled("link_graphs", dependent_id, dependency_id, NULL, r)

StoreMarkGraphCompleted ==
    \E id \in StoreGraphs, result \in Results :
        /\ id \in DOMAIN lgraphs
        /\ \E r \in LsMarkGraphCompletedOutcomes(LocalDb, id, result) :
               StorageCalled("mark_graph_completed", id, NULL, result, r)

StoreMarkGraphCancelled ==
    \E id \in StoreGraphs :
        /\ id \in DOMAIN lgraphs
        /\ \E r \in LsMarkGraphCancelledOutcomes(LocalDb, id) :
               StorageCalled("mark_graph_cancelled", id, NULL, NULL, r)

NextStorage ==
    \/ StoreCreateNode
    \/ StoreLinkGraphs
    \/ StoreMarkGraphCompleted
    \/ StoreMarkGraphCancelled

SpecStorage == InitStored /\ [][NextStorage]_vars

(***************************************************************************)
(* SpecProgress: the worker of SpecWorker when every handler returns a     *)
(* plain value and nobody cancels the session.  The broker delivers every  *)
(* message it holds and the event loop runs every coroutine that can run:  *)
(* each step is weakly fair.                                               *)
(***************************************************************************)
\* executor.execute_node returns a CompletedNode.
HandlerReturnsValue ==
    \E d \in Deliveries, result \in Results :
        /\ worker[d].exec = "handler"
        /\ worker' = [worker EXCEPT ![d].exec = AfterHandler("value"), ![d].result = result]
        /\ trace' = [trace EXCEPT ![d].outcome = "value", ![d].complete_calls = @ + 1]
        /\ UNCHANGED <<dbVars, callVars, calls, queue, broadcasts, orchVars, SESSIONS, localVars, buildVars, otherVars>>

NextProgress ==
    \/ Deliver
    \/ ExecStartNode
    \/ HandlerReturnsValue
    \/ ExecCompleteNode
    \/ ExecPublish
    \/ ParentResume

SpecProgress ==
    /\ InitAdmitted
    /\ [][NextProgress]_vars
    /\ WF_vars(Deliver)
    /\ WF_vars(ExecStartNode)
    /\ WF_vars(HandlerReturnsValue)
    /\ WF_vars(ExecCompleteNode)
    /\ WF_vars(ExecPublish)
    /\ WF_vars(ParentResume)

(***************************************************************************)
(* SpecCalls and SpecInvoke: the client side.  Calling a Node builds a     *)
(* NodeCall and then chains calls by ordering-only dependencies            *)
(* (SpecCalls); Executor.get_invoked_node turns a NodeCall into an         *)
(* InvokedNode and Executor.execute_node turns the stored arguments and    *)
(* the dependencies' results into the handler's arguments (SpecInvoke,     *)
(* over every set of calls the client can have built).  Arguments are      *)
(* taken by position, a variadic parameter's values one position each.     *)
(***************************************************************************)
\* The NodeCall objects, in the order they are built.
CallObjects == <<"k1", "k2", "k3">>

\* Argument values that are not calls.
Literals == {"x"}

\* The client calls then at most MaxThenCalls times.
MaxThenCalls == 2

Range(s) == {s[i] : i \in DOMAIN s}

\* The argument lists a client passes: none, or a call at the first and the
\* third position with any value between them.
ArgumentLists(values) ==
    {<<>>} \cup {<<a, b, a>> : a \in values \ Literals, b \in values}

\* The lists of calls a client passes to then: none, one or two.
CallLists(cs) == {<<>>} \cup [1..1 -> cs] \cup {l \in [1..2 -> cs] : l[1] # l[2]}

\* NodeCall.__init__.
NewNodeCall(arguments) == [arguments |-> arguments, dependencies |-> {}]

\* What then returns: the only call passed, else a NodeCalls over the calls.
ThenResult(targets) ==
    IF Len(targets) = 1 THEN [kind |-> "NodeCall", id |-> targets[1]]
    ELSE [kind |-> "NodeCalls", calls |-> targets]

NodeCallThen_Reversed(cs, self, targets) ==
    IF Len(targets) = 0
    THEN [ncalls |-> cs, returned |-> [kind |-> "NodeCall", id |-> self]]
    ELSE [ncalls |-> [cs EXCEPT ![self].dependencies = @ \cup Range(targets)],
          returned |-> ThenResult(targets)]

\* NodeCall.then(*calls) on the call self, over the calls built so far.
NodeCallThen(cs, self, targets) ==
    IF Len(targets) = 0
    THEN [ncalls |-> cs, returned |-> [kind |-> "NodeCall", id |-> self]]
    ELSE [ncalls |-> [x \in DOMAIN cs |->
                         IF x \in Range(targets)
                         THEN [cs[x] EXCEPT !.dependencies = @ \cup {self}] ELSE cs[x]],
          returned |-> ThenResult(targets)]

\* NodeCalls.then(*calls) on the wrapper self, a sequence of calls.
NodeCallsThen(cs, self, targets) ==
    IF Len(targets) = 0
    THEN [ncalls |-> cs, returned |-> [kind |-> "NodeCalls", calls |-> self]]
    ELSE [ncalls |-> [x \in DOMAIN cs |->
                         IF x \in Range(targets)
                         THEN [cs[x] EXCEPT !.dependencies = @ \cup Range(self)] ELSE cs[x]],
          returned |-> ThenResult(targets)]

\* A dict, kept as the sequence of its <<key, value>> items in insertion
\* order.
DictSet_Append(d, k, v) == Append(d, <<k, v>>)

DictSet_SetDefault(d, k, v) ==
    IF \E i \in DOMAIN d : d[i][1] = k THEN d ELSE Append(d, <<k, v>>)

\* dict.__setitem__.
DictSet(d, k, v) ==
    IF \E i \in DOMAIN d : d[i][1] = k
    THEN [i \in DOMAIN d |-> IF d[i][1] = k THEN <<k, v>> ELSE d[i]]
    ELSE Append(d, <<k, v>>)

DictKeys(d) == {d[i][1] : i \in DOMAIN d}

DictGet(d, k) == d[CHOOSE i \in DOMAIN d : d[i][1] = k][2]

\* dict.fromkeys(keys, value); the calls of the set are taken in the order
\* they were built.
RECURSIVE DictFromKeys(_, _, _)
DictFromKeys(keys, value, i) ==
    IF i > Len(CallObjects) THEN <<>>
    ELSE LET rest == DictFromKeys(keys, value, i + 1)
         IN  IF CallObjects[i] \in keys THEN <<<<CallObjects[i], value>>>> \o rest ELSE rest

\* The Codec's items: a DependencyReference is written with type code 2 and
\* the dependency's id, any other value with type code 0 and its dump.
ToBytes(argument) == IF argument.kind = "DependencyReference" THEN <<2, argument.dependency_id>>
                     ELSE <<0, argument.value>>

FromBytes(packed) == IF packed[1] = 2 THEN [kind |-> "DependencyReference", dependency_id |-> packed[2]]
                     ELSE [kind |-> "value", value |-> packed[2]]

\* handle_argument of get_invoked_node, without its write to dependencies.
HandleArgument(argument) ==
    IF argument \in Literals THEN [kind |-> "value", value |-> argument]
    ELSE [kind |-> "DependencyReference", dependency_id |-> argument]

\* The dependencies dict of get_invoked_node after the arguments from
\* position i on were handled.
RECURSIVE HandledDependencies(_, _, _)
HandledDependencies(deps, arguments, i) ==
    IF i > Len(arguments) THEN deps
    ELSE HandledDependencies(IF arguments[i] \in Literals THEN deps ELSE DictSet(deps, arguments[i], TRUE),
                             arguments, i + 1)

\* The InvokedNode built for the call id: a dependency is named by its id.
InvokedNode(cs, id) ==
    [id |-> id,
     arguments |-> [i \in DOMAIN cs[id].arguments |-> ToBytes(HandleArgument(cs[id].arguments[i]))],
     dependencies |-> HandledDependencies(DictFromKeys(cs[id].dependencies, FALSE, 1), cs[id].arguments, 1)]

\* The calls that get_invoked_node(id) recurses into.
CallsUnder(cs, id) == cs[id].dependencies \cup (Range(cs[id].arguments) \ Literals)

\* The calls that the recursion from the calls S reaches before it meets a
\* cached one.
RECURSIVE Recursed(_, _, _)
Recursed(cs, cache, S) ==
    LET T == S \cup UNION {CallsUnder(cs, x) \ DOMAIN cache : x \in S}
    IN  IF T = S THEN S ELSE Recursed(cs, cache, T)

\* Executor.get_invoked_node under functools.lru_cache: a cached call is
\* answered from the cache; a call that the recursion meets again before it
\* has returned ends it with RecursionError.
GetInvokedNode(cs, cache, id) ==
    IF id \in DOMAIN cache
    THEN [cache |-> cache, raised |-> "none", returned |-> cache[id]]
    ELSE LET R == Recursed(cs, cache, {id})
         IN  IF \E x \in R : x \in Recursed(cs, cache, CallsUnder(cs, x) \ DOMAIN cache)
             THEN [cache |-> cache, raised |-> "RecursionError", returned |-> NULL]
             ELSE [cache |-> [x \in DOMAIN cache \cup R |->
                                 IF x \in DOMAIN cache THEN cache[x] ELSE InvokedNode(cs, x)],
                   raised |-> "none",
                   returned |-> InvokedNode(cs, id)]

\* The data dependencies of an InvokedNode: the keys of RunningNode.dependencies.
DataDependencyIds(invoked) ==
    {k \in DictKeys(invoked.dependencies) : DictGet(invoked.dependencies, k)}

\* The arguments Executor.execute_node hands to the handler: a
\* DependencyReference gives way to that dependency's result.
ExecuteArguments(arguments, results) ==
    [i \in DOMAIN arguments |->
        LET argument == FromBytes(arguments[i])
        IN  IF argument.kind = "DependencyReference" THEN results[argument.dependency_id]
            ELSE argument.value]

\* Node.__call__: the client builds the next NodeCall.
NewCall ==
    \E arguments \in ArgumentLists(DOMAIN ncalls \cup Literals) :
        /\ Cardinality(DOMAIN ncalls) < Len(CallObjects)
        /\ LET id == CallObjects[Cardinality(DOMAIN ncalls) + 1]
           IN  /\ ncalls' = Put(ncalls, id, NewNodeCall(arguments))
               /\ nlast' = [op |-> "call", self |-> id, thens |-> nlast.thens]
        /\ UNCHANGED <<nwrappers, ncache, engineVars, localVars, otherVars>>

\* The client calls call.then(*calls).
Then ==
    \E self \in DOMAIN ncalls : \E targets \in CallLists(DOMAIN ncalls) :
        /\ nlast.thens < MaxThenCalls
        /\ LET r == NodeCallThen(ncalls, self, targets)
           IN  /\ ncalls' = r.ncalls
               /\ nwrappers' = IF r.returned.kind = "NodeCalls" THEN nwrappers \cup {r.returned.calls}
                               ELSE nwrappers
               /\ nlast' = [op |-> "NodeCall.then", self |-> self, calls |-> targets,
                            returned |-> r.returned, thens |-> nlast.thens + 1]
        /\ UNCHANGED <<ncache, engineVars, localVars, otherVars>>

\* The client calls then on a NodeCalls that an earlier then returned.
CallsThen ==
    \E self \in nwrappers : \E targets \in CallLists(DOMAIN ncalls) :
        /\ nlast.thens < MaxThenCalls
        /\ LET r == NodeCallsThen(ncalls, self, targets)
           IN  /\ ncalls' = r.ncalls
               /\ nwrappers' = IF r.returned.kind = "NodeCalls" THEN nwrappers \cup {r.returned.calls}
                               ELSE nwrappers
               /\ nlast' = [op |-> "NodeCalls.then", self |-> self, calls |-> targets,
                            returned |-> r.returned, thens |-> nlast.thens + 1]
        /\ UNCHANGED <<ncache, engineVars, localVars, otherVars>>

NextCalls ==
    \/ NewCall
    \/ Then
    \/ CallsThen

SpecCalls == Init /\ [][NextCalls]_vars

\* The calls a client can have built: each call's arguments and the calls
\* that then has put before it.
BuiltCalls ==
    {cs \in [Range(CallObjects) -> [arguments : ArgumentLists(Range(CallObjects) \cup Literals),
                                    dependencies : SUBSET Range(CallObjects)]] :
        \A i \in DOMAIN CallObjects :
            /\ Range(cs[CallObjects[i]].arguments) \ Literals \subseteq {CallObjects[j] : j \in 1..(i - 1)}
            /\ CallObjects[i] \notin cs[CallObjects[i]].dependencies}

InitInvoke ==
    /\ DbIs(EmptyDb)
    /\ InitCalls
    /\ admission = [n \in CallIds \cup SpliceIds |-> -1]
    /\ queue = [n \in CallIds \cup SpliceIds |-> 0]
    /\ InitBroker
    /\ InitOrchestration
    /\ InitWorker
    /\ InitLocal
    /\ ncalls \in BuiltCalls
    /\ nwrappers = {}
    /\ ncache = <<>>
    /\ nlast = [op |-> "init", thens |-> 0]
    /\ InitMessages
    /\ InitTransactions
    /\ InitExecutions

\* The call is submitted: Executor.get_invoked_node(call).
InvokeCall ==
    \E id \in DOMAIN ncalls :
        /\ LET r == GetInvokedNode(ncalls, ncache, id)
           IN  /\ ncache' = r.cache
               /\ nlast' = [op |-> "get_invoked_node", self |-> id, raised |-> r.raised,
                            returned |-> r.returned, thens |-> nlast.thens]
        /\ UNCHANGED <<ncalls, nwrappers, engineVars, localVars, otherVars>>

\* A worker runs the node of an invoked call whose data dependencies have
\* their results: Executor.execute_node up to the call of the handler.
ExecuteCall ==
    \E id \in DOMAIN ncache : \E results \in [DataDependencyIds(ncache[id]) -> Results] :
        /\ nlast' = [op |-> "execute_node", self |-> id, results |-> results,
                     returned |-> ExecuteArguments(ncache[id].arguments, results),
                     thens |-> nlast.thens]
        /\ UNCHANGED <<ncalls, nwrappers, ncache, engineVars, localVars, otherVars>>

NextInvoke ==
    \/ InvokeCall
    \/ ExecuteCall

SpecInvoke == InitInvoke /\ [][NextInvoke]_vars
(***************************************************************************)
(* SpecBroker: the RabbitMQ consumer of a worker.  aio-pika runs           *)
(* RabbitMQBroker.__node_enqueued_callback_wrapper as a task of its own    *)
(* for every delivered message; the wrapper awaits the worker callback     *)
(* inside try / except BaseException / finally and acknowledges the        *)
(* message in the finally clause.  The channel stays open.                 *)
(***************************************************************************)
\* How the awaited callback ends: it returns, it raises (NodeNotFound from
\* storage.start_node among others), or the wrapper's task is cancelled
\* while it waits and CancelledError comes out of the await.
CallbackOutcomes == {"returned", "raised", "NodeNotFound", "cancelled"}

AfterCallback_NoFinally(outcome) ==
    [pos |-> IF outcome = "returned" THEN "ack" ELSE "failed", logged |-> FALSE]

\* From the end of `await callback(...)` to the next await: the except
\* clause logs whatever was raised and swallows it, then the finally clause
\* reaches `await message.ack()`.
AfterCallback(outcome) ==
    [pos |-> "ack", logged |-> outcome # "returned"]

\* aio-pika hands a message to the wrapper, which builds the EnqueuedNode
\* and awaits the callback.
WrapperStart ==
    \E m \in Messages :
        /\ messages[m].pos = "queued"
        /\ messages' = [messages EXCEPT ![m].pos = "callback"]
        /\ UNCHANGED <<engineVars, localVars, buildVars, tx, executions, events>>

\* The callback ends and the wrapper runs on to message.ack().
CallbackEnds ==
    \E m \in Messages, outcome \in CallbackOutcomes :
        /\ messages[m].pos = "callback"
        /\ messages' = [messages EXCEPT ![m] = [pos |-> AfterCallback(outcome).pos,
                                                outcome |-> outcome,
                                                logged |-> AfterCallback(outcome).logged,
                                                acks |-> @.acks]]
        /\ UNCHANGED <<engineVars, localVars, buildVars, tx, executions, events>>

\* message.ack() returns and the wrapper ends.
MessageAck ==
    \E m \in Messages :
        /\ messages[m].pos = "ack"
        /\ messages' = [messages EXCEPT ![m].pos = "done", ![m].acks = @ + 1]
        /\ UNCHANGED <<engineVars, localVars, buildVars, tx, executions, events>>

NextBroker ==
    \/ WrapperStart
    \/ CallbackEnds
    \/ MessageAck

SpecBroker == Init /\ [][NextBroker]_vars

(***************************************************************************)
(* SpecRace: create_node and complete_node as concurrent transactions of   *)
(* PostgreSQL at READ COMMITTED.  A statement reads the rows committed     *)
(* when it began; a row it must lock (SELECT ... FOR UPDATE, UPDATE) is    *)
(* waited for while another transaction holds it, and once locked its      *)
(* WHERE clause is evaluated again on the row's latest committed version.  *)
(* What a transaction writes is seen by the others when it commits, which  *)
(* also releases its locks.  Each statement of the function                *)
(* mycelia.complete_node begins with a fresh view of the committed rows.   *)
(* Graph n1 is admitted and ready; n2 and n3 are admitted while n1 and     *)
(* then n2 complete.                                                       *)
(***************************************************************************)
\* The tables once invoke_node has admitted n1.
RaceDb == PgCreateNode(EmptyDb, RootNode("n1"), RootGraph("n1", "s1"), [id |-> "s1"]).db

InitRace ==
    /\ DbIs(RaceDb)
    /\ InitCalls
    /\ admission = [n \in CallIds \cup SpliceIds |-> IF n = "n1" THEN 0 ELSE -1]
    /\ queue = [n \in CallIds \cup SpliceIds |-> 0]
    /\ InitBroker
    /\ InitOrchestration
    /\ InitWorker
    /\ InitLocal
    /\ InitNodeCalls
    /\ InitMessages
    /\ InitTransactions
    /\ InitExecutions

\* ORDER BY graphs.id ASC over uuids.
IdOrder == <<"n1", "n2", "n3">>

FirstById(S) ==
    CHOOSE g \in S : \A h \in S :
        (CHOOSE i \in DOMAIN IdOrder : IdOrder[i] = g) <= (CHOOSE j \in DOMAIN IdOrder : IdOrder[j] = h)

\* Another transaction holds a lock on the row.
LockedByOther(t, row) == \E u \in Txns \ {t} : row \in tx[u].locks

ForUpdate_NoLock(rows) == {}

\* with_for_update(of=GraphsTable): the rows of pending_dependencies that the
\* statement locks.
ForUpdate(rows) == rows

\* create_node's statement begins: pending_dependencies selects, among the
\* committed graphs, the dependency graphs whose result is NULL.  The graph
\* rows that the dependency rows reference are there, as invoke_node admits a
\* node after its dependencies.
CreateBegin ==
    \E t \in Txns :
        /\ t[1] = "create_node"
        /\ tx[t].pc = "idle"
        /\ t[2] \notin DOMAIN nodes
        /\ DOMAIN CallDependencies(t[2]) \subseteq DOMAIN graphs
        /\ tx' = [tx EXCEPT ![t].pc = "locking", ![t].rows = PendingDependencies(Db, RootNode(t[2]))]
        /\ UNCHANGED <<engineVars, localVars, buildVars, messages, executions, events>>

\* The next selected graph row, in id order, is locked once no other
\* transaction holds it, and kept if its result is still NULL.
CreateLock ==
    \E t \in Txns :
        /\ t[1] = "create_node"
        /\ tx[t].pc = "locking"
        /\ ForUpdate(tx[t].rows) \ tx[t].seen # {}
        /\ LET g == FirstById(ForUpdate(tx[t].rows) \ tx[t].seen)
           IN  /\ ~LockedByOther(t, <<"graphs", g>>)
               /\ tx' = [tx EXCEPT ![t].seen = @ \cup {g},
                                   ![t].locks = @ \cup {<<"graphs", g>>},
                                   ![t].pending = IF graphs[g].result = NULL THEN @ \cup {g} ELSE @]
        /\ UNCHANGED <<engineVars, localVars, buildVars, messages, executions, events>>

\* The node row is inserted with the count of pending_dependencies, the
\* statement returns is_ready and commits.
CreateCommit ==
    \E t \in Txns :
        /\ t[1] = "create_node"
        /\ tx[t].pc = "locking"
        /\ ForUpdate(tx[t].rows) \subseteq tx[t].seen
        /\ LET node == RootNode(t[2])
               count == Cardinality(tx[t].pending \cup (tx[t].rows \ ForUpdate(tx[t].rows)))
               base == PgCreateNode(Db, node, RootGraph(t[2], "s1"), NoSession)
               r == [base EXCEPT !.db.nodes[t[2]].pending_dependency_count = count,
                                 !.is_ready = (count = 0)]
           IN  /\ base.raised = "none"
               /\ StorageCreateNode(r, node)
        /\ tx' = [tx EXCEPT ![t].pc = "done", ![t].locks = {}]
        /\ UNCHANGED <<calls, queue, broadcasts, orchVars, workerVars, localVars, buildVars, messages, executions, events>>

\* complete_node is called for a node that was released: its first UPDATE
\* locks the node's row and finds its graph.
CompleteBegin ==
    \E t \in Txns, result \in Results :
        /\ t[1] = "complete_node"
        /\ tx[t].pc = "idle"
        /\ t[2] \in DOMAIN nodes
        /\ nodes[t[2]].pending_dependency_count = 0
        /\ ~LockedByOther(t, <<"nodes", t[2]>>)
        /\ tx' = [tx EXCEPT ![t].pc = "graph", ![t].locks = @ \cup {<<"nodes", t[2]>>}, ![t].result = result]
        /\ UNCHANGED <<engineVars, localVars, buildVars, messages, executions, events>>

\* UPDATE graphs SET result ... WHERE id = completed_graph_id AND result IS
\* NULL: waits for the row, locks it; FOUND tells whether it was updated.
CompleteGraph ==
    \E t \in Txns :
        /\ t[1] = "complete_node"
        /\ tx[t].pc = "graph"
        /\ LET g == nodes[t[2]].graph_id
           IN  /\ ~LockedByOther(t, <<"graphs", g>>)
               /\ tx' = [tx EXCEPT ![t].pc = "nodes",
                                   ![t].locks = @ \cup {<<"graphs", g>>},
                                   ![t].found = (graphs[g].result = NULL)]
        /\ UNCHANGED <<engineVars, localVars, buildVars, messages, executions, events>>

\* The statement over the dependents: the nodes that have a committed
\* dependency row on the graph; their rows are locked to be decremented when
\* this is the first completion.
CompleteDependents ==
    \E t \in Txns :
        /\ t[1] = "complete_node"
        /\ tx[t].pc = "nodes"
        /\ LET rows == Dependents(Db, nodes[t[2]].graph_id)
           IN  /\ \A n \in rows : ~LockedByOther(t, <<"nodes", n>>)
               /\ tx' = [tx EXCEPT ![t].pc = "commit",
                                   ![t].rows = rows,
                                   ![t].locks = IF tx[t].found THEN @ \cup {<<"nodes", n>> : n \in rows} ELSE @]
        /\ UNCHANGED <<engineVars, localVars, buildVars, messages, executions, events>>

\* The function returns the dependents whose count is 0 and commits.
CompleteCommit ==
    \E t \in Txns :
        /\ t[1] = "complete_node"
        /\ tx[t].pc = "commit"
        /\ LET g == nodes[t[2]].graph_id
               nodes1 == [nodes EXCEPT ![t[2]].finished_at = Now(@)]
               nodes2 == [n \in DOMAIN nodes1 |->
                             IF tx[t].found /\ n \in tx[t].rows
                             THEN [nodes1[n] EXCEPT !.pending_dependency_count = @ - 1]
                             ELSE nodes1[n]]
               r == [db |-> [Db EXCEPT !.nodes = nodes2, !.graphs[g].result = tx[t].result],
                     raised |-> "none",
                     ready_nodes |-> ReadyAmong(nodes2, tx[t].rows)]
           IN  StorageCompleteNode(r, t[2])
        /\ tx' = [tx EXCEPT ![t].pc = "done", ![t].locks = {}]
        /\ UNCHANGED <<calls, queue, broadcasts, orchVars, workerVars, localVars, buildVars, messages, executions, events>>

NextRace ==
    \/ CreateBegin
    \/ CreateLock
    \/ CreateCommit
    \/ CompleteBegin
    \/ CompleteGraph
    \/ CompleteDependents
    \/ CompleteCommit

SpecRace == InitRace /\ [][NextRace]_vars


(***************************************************************************)
(* SpecExec: GraphsInteractor.__execute_node and on_graph_cancelled on one *)
(* worker.  LocalBroker runs every "node enqueued" message in a task of    *)
(* its own, and LocalStorage.mark_graph_completed returns a node each time *)
(* it leaves the node without dependencies, so the executions of one node, *)
(* and of a node and the call it returned into its graph, can overlap.     *)
(* The graph w holds the node w; the graph a holds the node a and the node *)
(* b that the handler of a returned.  An Event object is named after the   *)
(* execution that made it.                                                 *)
(***************************************************************************)
ExecNodes == {"w", "a", "b"}

\* Node.graph_id.
ExecGraphOf(n) == IF n = "w" THEN "w" ELSE "a"

ExecGraphs == {ExecGraphOf(n) : n \in ExecNodes}

\* What executor.execute_node ends with.
ExecutorOutcomes == {"value", "exception"}

\* Lines 219-227: the event of the graph is looked up, or a new one is
\* stored under the graph id, and the two tasks are started.
ExecuteNodeBegin ==
    \E e \in Executions, n \in ExecNodes :
        /\ executions[e].pc = "idle"
        /\ LET g == ExecGraphOf(n)
               event == IF g \in DOMAIN RUNNING_GRAPHS THEN RUNNING_GRAPHS[g] ELSE e
           IN  /\ executions' = [executions EXCEPT ![e] = [pc |-> "waiting", node |-> n, event |-> event,
                                                            outcome |-> "none"]]
               /\ RUNNING_GRAPHS' = IF g \in DOMAIN RUNNING_GRAPHS THEN RUNNING_GRAPHS ELSE Put(RUNNING_GRAPHS, g, e)
               /\ events' = IF g \in DOMAIN RUNNING_GRAPHS THEN events ELSE Put(events, e, FALSE)
        /\ UNCHANGED <<engineVars, lgraphs, lnodes, lqueue, lpublished, lcancelled, lrun, llast, buildVars,
                       messages, tx>>

\* What __execute_node does with the entry of the graph when asyncio.wait
\* has returned.
Popped(map, g) == [x \in DOMAIN map \ {g} |-> map[x]]

\* Lines 228-243: asyncio.wait returns because the event was set or the
\* handler ended; the entry of the graph is popped; a set event makes the
\* execution return None as cancelled.
ExecuteNodeEnd ==
    \E e \in Executions, outcome \in ExecutorOutcomes :
        /\ executions[e].pc = "waiting"
        /\ executions' = [executions EXCEPT ![e].pc = "done",
                                            ![e].outcome = IF events[executions[e].event] THEN "cancelled"
                                                           ELSE outcome]
        /\ RUNNING_GRAPHS' = Popped(RUNNING_GRAPHS, ExecGraphOf(executions[e].node))
        /\ UNCHANGED <<engineVars, lgraphs, lnodes, lqueue, lpublished, lcancelled, lrun, llast, buildVars,
                       messages, tx, events>>

\* cancel_graph publishes a "graph cancelled" message for a graph that
\* mark_graph_cancelled returned.
PublishGraphCancelled ==
    \E g \in ExecGraphs :
        /\ g \notin lcancelled
        /\ lcancelled' = lcancelled \cup {g}
        /\ UNCHANGED <<engineVars, lgraphs, lnodes, lqueue, lpublished, RUNNING_GRAPHS, lrun, llast, buildVars,
                       otherVars>>

\* on_graph_cancelled(g): the worker takes the message and sets the event
\* stored under g, if there is one.
OnGraphCancelledExec ==
    \E g \in ExecGraphs :
        /\ g \in lcancelled
        /\ lcancelled' = lcancelled \ {g}
        /\ events' = IF g \in DOMAIN RUNNING_GRAPHS THEN [events EXCEPT ![RUNNING_GRAPHS[g]] = TRUE] ELSE events
        /\ UNCHANGED <<engineVars, lgraphs, lnodes, lqueue, lpublished, RUNNING_GRAPHS, lrun, llast, buildVars,
                       messages, tx, executions>>

NextExec ==
    \/ ExecuteNodeBegin
    \/ ExecuteNodeEnd
    \/ PublishGraphCancelled
    \/ OnGraphCancelledExec

SpecExec == Init /\ [][NextExec]_vars
(***************************************************************************)
(* Claims checked under Spec.                                              *)
(***************************************************************************)
\* The step just taken was a storage call of kind op that raised nothing.
Returned(op) == calls' # calls /\ last'.op = op /\ last'.raised = "none"

\* The dependency graphs of call id whose result is NULL in graph table gs.
NullDependencies(gs, id) ==
    {g \in DOMAIN CallDependencies(id) : g \in DOMAIN gs /\ gs[g].result = NULL}

\* C1: once a graph's result is non-null, no later storage call replaces it
\* with another value.
C1_ResultWrittenOnce ==
    [][\A g \in DOMAIN graphs :
          graphs[g].result # NULL => graphs'[g].result = graphs[g].result]_vars

\* C2: a node admitted with N >= 1 pending dependencies is returned ready by
\* the first complete_node calls of its dependency graphs exactly once, by
\* the call that completes the last pending one, and by none before it.
C2_FanInReadyOnce ==
    \A n \in DOMAIN nodes :
        admission[n] >= 1 =>
            firstReady[n] = IF NullDependencies(graphs, n) = {} THEN 1 ELSE 0

C2_Witness ==
    /\ admission["n3"] = 2
    /\ firstReady["n3"] = 1
    /\ last.op = "complete_node"
    /\ "n3" \in last.ready

\* C3: a second complete_node call for the same node returns an empty ready
\* list and decrements no pending_dependency_count.
C3_CompleteNodeIdempotent ==
    [][Returned("complete_node") /\ completions[last'.id] >= 1 =>
          /\ last'.ready = {}
          /\ \A n \in DOMAIN nodes :
                 nodes'[n].pending_dependency_count = nodes[n].pending_dependency_count]_vars

\* C6: at admission the stored pending_dependency_count is the number of
\* the node's dependency graphs whose result is null, and create_node
\* returns true exactly when that number is 0.
C6_AdmissionCount ==
    [][Returned("create_node") =>
          LET id == last'.id
              pending == Cardinality(NullDependencies(graphs, id))
          IN  /\ nodes'[id].pending_dependency_count = pending
              /\ (id \in last'.ready) = (pending = 0)]_vars

C6_Witness ==
    /\ last.op = "create_node"
    /\ last.raised = "none"
    /\ last.id = "n3"
    /\ graphs["n1"].result # NULL
    /\ graphs["n2"].result = NULL
    /\ nodes["n3"].pending_dependency_count = 1

\* C7: every node's pending_dependency_count is the number of graphs in its
\* dependency set whose result is still null; it never increases and is
\* never negative.
C7_CountMatches ==
    \A n \in DOMAIN nodes :
        /\ nodes[n].pending_dependency_count =
               Cardinality({x \in dependencies : x.node_id = n /\ graphs[x.graph_id].result = NULL})
        /\ nodes[n].pending_dependency_count >= 0

C7_PendingCount ==
    /\ []C7_CountMatches
    /\ [][\A n \in DOMAIN nodes :
             nodes'[n].pending_dependency_count <= nodes[n].pending_dependency_count]_vars

C7_Witness ==
    /\ "n3" \in DOMAIN nodes
    /\ admission["n3"] = 2
    /\ nodes["n3"].pending_dependency_count = 1
    /\ graphs["n2"].result # NULL

\* C8: a start_node call that finds the session cancelled raises
\* SessionCancelled and leaves the node's started_at as it was.
C8_CancelledStartKeepsStartedAt ==
    [][calls' # calls /\ last'.op = "start_node" /\ last'.raised = "SessionCancelled" =>
          nodes'[last'.id].started_at = nodes[last'.id].started_at]_vars

\* C20: finished_at is set at most once and only after started_at.  No
\* storage call writes the finished_at of a node whose started_at is null or
\* whose finished_at is already set.
C20_FinishedAtOnceAfterStart ==
    [][\A n \in DOMAIN nodes :
          nodes'[n].finished_at # nodes[n].finished_at =>
              /\ nodes[n].started_at # 0
              /\ nodes[n].finished_at = 0]_vars

\* C21: a duplicate "ready" delivery is safe: a start_node call on a node
\* whose started_at is already set does not modify started_at.
C21_StartNodeConditional ==
    [][calls' # calls /\ last'.op = "start_node" /\ last'.id \in DOMAIN nodes
          /\ nodes[last'.id].started_at # 0 =>
              nodes'[last'.id].started_at = nodes[last'.id].started_at]_vars

\* C23, PostgresStorage: a create_node call that raises leaves the tables as
\* they were before the call.
C23_PgCreateNodeAllOrNothing ==
    [][calls' # calls /\ last'.op = "create_node" /\ last'.raised # "none" =>
          UNCHANGED dbVars]_vars

\* C11: storage.cancel_session has four outcomes, decided by the state before
\* the call: no session row, SessionNotFound; cancelled_at set,
\* SessionCancelled; cancelled_at unset and no graph of the session with a
\* null result, SessionFinished; otherwise cancelled_at is set and the call
\* returns.
C11_CancelSessionOutcomes ==
    [][calls' # calls /\ last'.op = "cancel_session" =>
          LET id == last'.id
          IN  IF id \notin DOMAIN sessions
              THEN last'.raised = "SessionNotFound" /\ sessions' = sessions
              ELSE IF sessions[id].cancelled_at # 0
              THEN last'.raised = "SessionCancelled" /\ sessions' = sessions
              ELSE IF \A g \in DOMAIN graphs : graphs[g].session_id = id => graphs[g].result # NULL
              THEN last'.raised = "SessionFinished" /\ sessions' = sessions
              ELSE /\ last'.raised = "none"
                   /\ sessions'[id].cancelled_at # 0
                   /\ \A s \in DOMAIN sessions \ {id} : sessions'[s] = sessions[s]]_vars

C11_Witness ==
    /\ last.op = "cancel_session"
    /\ last.raised = "SessionFinished"
    /\ \E g \in DOMAIN graphs : graphs[g].session_id = last.id

\* C12: cancelled_at changes once, from unset to a timestamp, and a
\* cancel_session call on a cancelled session raises SessionCancelled and
\* leaves every table as it was.
C12_CancelSessionOnce ==
    [][/\ \A s \in DOMAIN sessions :
             sessions[s].cancelled_at # 0 => sessions'[s].cancelled_at = sessions[s].cancelled_at
       /\ (/\ calls' # calls
           /\ last'.op = "cancel_session"
           /\ last'.id \in DOMAIN sessions
           /\ sessions[last'.id].cancelled_at # 0)
          => last'.raised = "SessionCancelled" /\ dbVars' = dbVars]_vars

C12_Witness ==
    /\ last.op = "cancel_session"
    /\ last.raised = "SessionCancelled"
    /\ IsRunning(Db, last.id)

\* The graphs of session s in graph table gs.
GraphsOf(gs, s) == {g \in DOMAIN gs : gs[g].session_id = s}

\* C14: once a session is cancelled, no storage call changes the result of
\* one of its graphs or the pending_dependency_count of one of its nodes.
C14_CancelledSessionFrozen ==
    [][\A s \in DOMAIN sessions :
          sessions[s].cancelled_at # 0 =>
              /\ \A g \in GraphsOf(graphs, s) : graphs'[g].result = graphs[g].result
              /\ \A n \in DOMAIN nodes :
                     nodes[n].graph_id \in GraphsOf(graphs, s) =>
                         nodes'[n].pending_dependency_count = nodes[n].pending_dependency_count]_vars

(***************************************************************************)
(* Claims checked under SpecOrch.                                          *)
(***************************************************************************)
\* The positions of an invocation that admits its node itself.
Admitting == {"gathering", "locking", "creating session", "creating", "publishing"}

\* C4: within one orchestration storage.create_node is called at most once
\* for a node id, exactly once by the time any invocation of that id has
\* returned, and at most one invocation of the id is on the admitting path:
\* the others wait for its event.
C4_CreateNodeOncePerId ==
    \A id \in NodeIds :
        /\ creates.issued[id] <= 1
        /\ Cardinality({c \in Invocations : Node(c) = id /\ invocations[c] \in Admitting}) <= 1
        /\ \A c \in Invocations :
               Node(c) = id /\ invocations[c] = "returned" =>
                   creates.issued[id] = 1 /\ id \in creates.returned /\ id \in DOMAIN nodes

C4_Witness ==
    /\ invocations[<<"client", "n3">>] = "returned"
    /\ invocations[<<"n3", "n1">>] = "returned"
    /\ invocations[<<"n2", "n1">>] = "returned"
    /\ creates.issued["n1"] = 1

\* C5: within one orchestration storage.create_node for a node is issued
\* only after create_node has returned for every one of its dependencies.
C5_DependenciesAdmittedFirst ==
    [][\A c \in Invocations :
          creates'.issued[Node(c)] # creates.issued[Node(c)] =>
              DOMAIN CallDependencies(Node(c)) \subseteq creates.returned]_vars

C5_Witness ==
    /\ invocations[<<"client", "n3">>] = "creating"
    /\ invocations[<<"n2", "n1">>] = "returned"
    /\ {"n1", "n2"} \subseteq creates.returned

\* C22: session initialisation under the single-use lock.  In an
\* orchestration started without context exactly one create_node call carries
\* CreatedSession, the one of the first invocation to enter the lock; no
\* other invocation has its create_node in flight while that call is, and
\* every graph admitted belongs to the one session of the context.
C22_SessionInitialisedOnce ==
    /\ Cardinality(creates.with_session) <= 1
    /\ (\E n \in CallIds : creates.issued[n] > 0) => Cardinality(creates.with_session) = 1
    /\ \A c \in Invocations :
           invocations[c] = "creating session" =>
               \A x \in Invocations \ {c} : invocations[x] \notin {"creating", "creating session"}
    /\ \A c \in Invocations :
           invocations[c] = "creating" =>
               creates.with_session # {} /\ creates.with_session \subseteq DOMAIN created_nodes
               /\ \A n \in creates.with_session : created_nodes[n] # "unset"
    /\ DOMAIN sessions \subseteq {session_id.value}
    /\ \A g \in DOMAIN graphs : graphs[g].session_id = session_id.value

\* Two independent arguments meet at the lock: one has entered it and has its
\* create_node, carrying CreatedSession, in flight, while the other waits.
C22_Witness ==
    \E a, b \in {<<"n6", "n1">>, <<"n6", "n5">>} :
        /\ invocations[a] = "creating session"
        /\ invocations[b] = "locking"
        /\ creates.with_session = {Node(a)}

\* The client's invoke_node of the chain's last call has returned.
ChainSubmitted == invocations[<<"client", "n9">>] = "returned"

\* C31 as stated: submitting the chain A().then(B()).then(C()) in one
\* orchestration creates exactly one graph row, and all three node rows
\* belong to that graph.
C31_ChainOneGraph_AsStated ==
    ChainSubmitted =>
        /\ Cardinality(DOMAIN graphs) = 1
        /\ ChainIds \subseteq DOMAIN nodes
        /\ \A n \in ChainIds : nodes[n].graph_id \in DOMAIN graphs

\* C31: submitting the chain A().then(B()).then(C()) in one orchestration
\* creates three node rows and three graph rows in one session: every call
\* of the chain is admitted as the root of a graph of its own, whose id is
\* the node's id, and the ordering dependencies B->A and C->B point at those
\* graphs.
C31_ChainGraphPerCall ==
    ChainSubmitted =>
        /\ DOMAIN nodes = ChainIds
        /\ DOMAIN graphs = ChainIds
        /\ \A n \in ChainIds : nodes[n].graph_id = n
        /\ DOMAIN sessions = {session_id.value}
        /\ \A g \in ChainIds : graphs[g].session_id = session_id.value
        /\ dependencies = {[node_id |-> "n8", graph_id |-> "n7", is_data |-> FALSE],
                           [node_id |-> "n9", graph_id |-> "n8", is_data |-> FALSE]}

C31_Witness ==
    /\ ChainSubmitted
    /\ creates.returned = ChainIds
    /\ Cardinality(DOMAIN graphs) = 3

(***************************************************************************)
(* Claims checked under SpecAdmit.                                         *)
(***************************************************************************)
\* What the waiters of an entry are given is what its admission ended with,
\* and a session id is given only for an admitted node.
EntriesResolved ==
    /\ \A c \in Invocations :
           invocations[c] = "raised" =>
               /\ IsException(created_nodes[Node(c)])
               /\ creates.raised[c] = created_nodes[Node(c)]
    /\ \A c \in Invocations :
           invocations[c] = "cancelled" /\ Node(c) \in DOMAIN created_nodes =>
               created_nodes[Node(c)] # "unset"
    /\ \A n \in DOMAIN created_nodes :
           created_nodes[n] = "set" => n \in creates.returned /\ n \in DOMAIN nodes

\* C37: when the admission of a node fails or is cancelled inside
\* invoke_node, every other invocation awaiting that node's pending entry is
\* released with the same exception; no waiter of an entry waits for ever,
\* and an entry is resolved with a session id only after storage.create_node
\* has returned for that node.
C37_WaitersReleased ==
    /\ []EntriesResolved
    /\ \A c \in Invocations :
           (invocations[c] = "waiting") ~> (invocations[c] \in {"returned", "raised", "cancelled"})

\* create_node of n1 failed in one invocation while another was waiting for
\* its entry, and the waiter was released with that StorageError.
C37_Witness ==
    \E c, x \in Invocations :
        /\ c # x
        /\ Node(c) = Node(x)
        /\ creates.issued[Node(c)] = 1
        /\ creates.raised[c] = "StorageError"
        /\ creates.raised[x] = "StorageError"
        /\ invocations[x] = "raised"

(***************************************************************************)
(* Claims checked under SpecWorker.                                        *)
(***************************************************************************)
\* C13: a cancel_session call whose storage update raised (SessionNotFound,
\* SessionCancelled or SessionFinished) publishes no "session cancelled"
\* broadcast.
C13_BroadcastOnlyOnSuccess ==
    [][last'.op = "cancel_session" /\ last'.raised # "none" =>
          broadcasts' \subseteq broadcasts]_vars

\* C9: if the session's cancellation event is set while a delivery's handler
\* is running, complete_node is never called for that delivery, the node's
\* finished_at stays unset and the delivery publishes no dependent.
C9_EventSetInHandlerAborts ==
    \A d \in Deliveries :
        trace[d].set_in_handler =>
            /\ trace[d].complete_calls = 0
            /\ nodes[worker[d].node].finished_at = 0
            /\ trace[d].published = {}

\* C10: when a delivery's execution has ended with an exception before the
\* cancellation event was set, on_node_enqueued ends by returning, having
\* invoked cancel_session.
C10_FailureCancelsSession ==
    \A d \in Deliveries :
        /\ worker[d].exec = "raised"
        /\ ~trace[d].set_at_raise
        /\ worker[d].parent \in {"returned", "failed"}
        => /\ worker[d].parent = "returned"
           /\ trace[d].cancel_calls = 1

\* C16: a call returned by a running handler is admitted into the current
\* graph.  Once the create_node call of the splice has ended, the returned
\* call is a stored node whose graph_id is the graph_id passed in CreatedNode,
\* which is the running node's, and no graph row carries the call's id.
C16_SpliceAdmittedIntoGraph ==
    \A d \in Deliveries :
        trace[d].outcome = "call" /\ worker[d].exec \notin {"create_node", "cancelled"} =>
            LET b == trace[d].spliced
            IN  /\ b \in DOMAIN nodes
                /\ nodes[b].graph_id = nodes[worker[d].node].graph_id
                /\ b \notin DOMAIN graphs

\* C17: ordering-only dependencies gate execution.  While the graph of an
\* ordering-only dependency (is_data false, as NodeCall.then adds it) has no
\* result, the dependent node is neither published nor delivered nor
\* started; so the handlers of the chain n1, n2, n3 start in that order, and
\* once the handler of n3 has returned a value and complete_node has
\* returned, the root graph n3 holds that value.
C17_OrderingGatesExecution ==
    /\ \A x \in dependencies :
           ~x.is_data /\ graphs[x.graph_id].result = NULL =>
               /\ queue[x.node_id] = 0
               /\ \A d \in Deliveries : worker[d].node # x.node_id
               /\ nodes[x.node_id].started_at = 0
    /\ nodes["n3"].started_at # 0 => nodes["n2"].started_at # 0
    /\ nodes["n2"].started_at # 0 => nodes["n1"].started_at # 0
    /\ \A d \in Deliveries :
           /\ worker[d].node = "n3"
           /\ trace[d].outcome = "value"
           /\ worker[d].exec \in {"publish", "returned"}
           => graphs["n3"].result = worker[d].result

C17_Witness ==
    /\ \E x \in dependencies : ~x.is_data /\ x.node_id = "n3" /\ x.graph_id = "n2"
    /\ \E d \in Deliveries :
           /\ worker[d].node = "n3"
           /\ trace[d].outcome = "value"
           /\ worker[d].exec = "returned"
           /\ graphs["n3"].result = worker[d].result

InFlight(s) ==
    {d \in Deliveries : worker[d].session_id = s /\ worker[d].parent \in {"waiting", "cancel requested"}}

\* C33: the worker's per-session cancellation map is pruned when the last
\* subscriber leaves.  The map holds an entry for session s exactly while
\* some on_node_enqueued for s is in flight, the entry's one event counts
\* every in-flight execution of s as a subscriber, so that unsubscribe and
\* the removal of the entry find what they expect.
C33_SessionsPruned ==
    /\ \A s \in SessionIds : s \in DOMAIN SESSIONS <=> InFlight(s) # {}
    /\ \A s \in DOMAIN SESSIONS : SESSIONS[s].subscriber_count = Cardinality(InFlight(s))

\* Two executions of one session are in flight and share the entry.
C33_Witness ==
    /\ Cardinality(InFlight("s1")) = 2
    /\ SESSIONS["s1"].subscriber_count = 2

\* The worker has received a "session cancelled" broadcast of s: the session
\* is cancelled in storage, which every successful cancel_session follows
\* with a broadcast, and no broadcast of s is still under way.
BroadcastReceived(s) ==
    /\ s \in DOMAIN sessions
    /\ sessions[s].cancelled_at # 0
    /\ s \notin broadcasts

\* C34: when the worker takes a node-ready message of a session whose
\* "session cancelled" broadcast it has already received, the subscriber
\* registered for that message observes a set cancellation event.
C34_CancelledSessionEventSet ==
    [][\A d \in Deliveries :
          /\ worker[d].parent = "idle"
          /\ worker'[d].parent = "waiting"
          /\ BroadcastReceived(worker'[d].session_id)
          => SESSIONS'[worker'[d].session_id].is_set]_vars

\* A ready message of node n is in the queue, or has been delivered to an
\* on_node_enqueued whose start_node has not yet run.
Published(n) ==
    \/ queue[n] > 0
    \/ \E d \in Deliveries : worker[d].node = n /\ worker[d].exec = "start_node"

\* C36: a ready message is published for a node only when its node row
\* exists and its pending_dependency_count is 0, so start_node on a published
\* node does not raise NodeNotFound and returns a non-null result for every
\* data dependency of the node.
C36_PublishedNodeIsReady ==
    \A n \in DOMAIN queue :
        Published(n) =>
            /\ n \in DOMAIN nodes
            /\ nodes[n].pending_dependency_count = 0
            /\ PgStartNode(Db, n).raised # "NodeNotFound"
            /\ \A g \in DOMAIN PgStartNode(Db, n).dependencies : PgStartNode(Db, n).dependencies[g] # NULL

\* n3, with a data dependency on n1 and an ordering dependency on n2, has
\* been published by the fan-out of the last of them.
C36_Witness ==
    /\ queue["n3"] > 0
    /\ DOMAIN PgStartNode(Db, "n3").dependencies = {"n1"}
    /\ \E d \in Deliveries : "n3" \in trace[d].published

(***************************************************************************)
(* Claims checked under SpecLocal.                                         *)
(***************************************************************************)
\* The nodes that wait for graph g.
WaitingOn(ns, g) == {n \in DOMAIN ns : \E k \in DOMAIN ns[n].dependencies : ns[n].dependencies[k] = g}

\* C15: splice.  Once the handler of graph A's node has returned the call B
\* (B's graph has A as its dependent graph) and while B is not complete, no
\* step of the engine gives A a result or publishes a node waiting on A; the
\* step that completes B gives A the result of B and releases the nodes
\* waiting on A.
C15_SplicePinsResult ==
    [][\A A \in DOMAIN lgraphs, B \in DOMAIN lgraphs :
          /\ lgraphs[B].dependent_graph_id = A
          /\ lgraphs[B].status = "created"
          /\ lgraphs[A].status = "created"
          /\ llast' = llast
          => IF lgraphs'[B].status = "completed"
             THEN /\ lgraphs'[A].status = "completed"
                  /\ lgraphs'[A].result = lgraphs'[B].result
                  /\ WaitingOn(lnodes', A) = {}
             ELSE /\ lgraphs'[A].result = NULL
                  /\ \A n \in WaitingOn(lnodes, A) : lpublished'[n] = lpublished[n]]_vars

\* A paused graph: the graph of a pause call, still in the status created.
Paused(g) ==
    /\ lgraphs[g].status = "created"
    /\ \E n \in DOMAIN lnodes : lnodes[n].graph_id = g /\ lnodes[n].handler_id = NULL

\* C19: resume.  The step resume(g, v) on a paused graph g completes g with
\* v, gives every node waiting on g the argument v in place of that
\* dependency, and publishes exactly once each of them that waits on nothing
\* else, and no other node.
C19_ResumeReleasesWaitingNodes ==
    [][llast'.calls = llast.calls + 1 /\ llast'.op = "resume" /\ Paused(llast'.id) =>
          LET g == llast'.id
              v == llast'.result
          IN  /\ lgraphs'[g].status = "completed"
              /\ lgraphs'[g].result = v
              /\ \A n \in WaitingOn(lnodes, g) :
                     \A k \in DOMAIN lnodes[n].dependencies :
                         lnodes[n].dependencies[k] = g =>
                             /\ k \notin DOMAIN lnodes'[n].dependencies
                             /\ k \in DOMAIN lnodes'[n].arguments
                             /\ lnodes'[n].arguments[k] = v
              /\ \A n \in DOMAIN lnodes :
                     lpublished'[n] =
                         IF /\ n \in WaitingOn(lnodes, g)
                            /\ \A k \in DOMAIN lnodes[n].dependencies : lnodes[n].dependencies[k] = g
                         THEN lpublished[n] + 1
                         ELSE lpublished[n]]_vars

C19_Witness ==
    /\ llast.op = "resume"
    /\ llast.id = "p"
    /\ lgraphs["p"].status = "completed"
    /\ lpublished["w"] = 1
    /\ lnodes["w"].arguments = <<llast.result>>
    /\ lpublished["r"] = 0
    /\ 1 \in DOMAIN lnodes["r"].arguments
    /\ DOMAIN lnodes["r"].dependencies # {}

\* C18, the pause call: the node of a pause call (handler_id None) is never
\* published to the broker, and its graph leaves the status created only by
\* a client's resume or cancel.
C18_PauseCallNeverPublished ==
    [][/\ \A n \in DOMAIN lnodes' : lnodes'[n].handler_id = NULL => lpublished'[n] = 0
       /\ \A n \in DOMAIN lnodes :
              /\ lnodes[n].handler_id = NULL
              /\ lgraphs[lnodes[n].graph_id].status = "created"
              /\ llast' = llast
              => /\ lgraphs'[lnodes[n].graph_id] = lgraphs[lnodes[n].graph_id]
                 /\ \A m \in WaitingOn(lnodes, lnodes[n].graph_id) : lpublished'[m] = lpublished[m]]_vars

(***************************************************************************)
(* Claims checked under SpecStorage.                                       *)
(***************************************************************************)
\* The step just taken was the storage call op.
StoreReturned(op) == llast'.calls # llast.calls /\ llast'.op = op

\* C23: create_node is all-or-nothing.  A create_node call that raises
\* leaves nothing it wrote in storage: no node, and no registration of the
\* node as a dependent of a graph.
C23_CreateNodeAllOrNothing ==
    [][StoreReturned("create_node") /\ llast'.raised # "none" =>
          lgraphs' = lgraphs /\ lnodes' = lnodes]_vars

\* The nodes with a pending dependency on graph g in node table ns.
StoreWaitingOn(ns, g) ==
    {n \in DOMAIN ns : \E k \in DOMAIN ns[n].dependencies : ns[n].dependencies[k] = g}

\* C24: deferred completion through the back-edge.  When graph B, linked as
\* the dependency of the non-terminal graph A while B was not terminal,
\* completes with result r, A becomes completed with result r, every node
\* waiting on A has that dependency replaced by the argument r, and those
\* left without a dependency are returned ready.
C24_DeferredCompletion ==
    [][StoreReturned("mark_graph_completed") /\ llast'.raised = "none" =>
          LET B == llast'.id
              A == lgraphs[B].dependent_graph_id
              r == llast'.result
          IN  lgraphs[B].status = "created" /\ A # NULL /\ lgraphs[A].status = "created" =>
                  /\ lgraphs'[A].status = "completed"
                  /\ lgraphs'[A].result = r
                  /\ \A n \in StoreWaitingOn(lnodes, A) :
                         /\ n \notin StoreWaitingOn(lnodes', A)
                         /\ \A k \in DOMAIN lnodes[n].dependencies :
                                lnodes[n].dependencies[k] = A => lnodes'[n].arguments[k] = r
                         /\ DOMAIN lnodes'[n].dependencies = {} => n \in llast'.ready_nodes]_vars

\* No step replaces a back-edge that is set.
BackEdgeKept ==
    \A g \in DOMAIN lgraphs :
        lgraphs[g].dependent_graph_id # NULL =>
            lgraphs'[g].dependent_graph_id = lgraphs[g].dependent_graph_id

StoreWaitingOnlyOn(ns, g) ==
    {n \in StoreWaitingOn(ns, g) :
        \A k \in DOMAIN ns[n].dependencies : ns[n].dependencies[k] = g}

\* C26: link_graphs(dependent, dependency) on a terminal dependency
\* propagates at once.  If the dependency is completed the call returns, the
\* dependent graph is completed with the dependency's result and the nodes
\* that waited only on the dependent are returned ready; if it is cancelled
\* the dependent graph is cancelled; in both cases no back-edge is written.
C26_LinkTerminalPropagates ==
    [][StoreReturned("link_graphs") =>
          LET dependent == llast'.id
              dependency == lgraphs[llast'.other]
          IN  /\ dependency.status = "completed" =>
                     /\ llast'.raised = "none"
                     /\ lgraphs'[dependent].status = "completed"
                     /\ lgraphs'[dependent].result = dependency.result
                     /\ StoreWaitingOnlyOn(lnodes, dependent) \subseteq llast'.ready_nodes
              /\ dependency.status = "cancelled" => lgraphs'[dependent].status = "cancelled"
              /\ dependency.status # "created" =>
                     \A g \in DOMAIN lgraphs :
                         lgraphs'[g].dependent_graph_id = lgraphs[g].dependent_graph_id]_vars

\* C26 on a storage in which every registered dependent is a node.
C26_LinkTerminalPropagatesWellFormed ==
    [][StoreReturned("link_graphs") /\ Registered(LocalDb) \subseteq DOMAIN lnodes =>
          LET dependent == llast'.id
              dependency == lgraphs[llast'.other]
          IN  /\ dependency.status = "completed" =>
                     /\ llast'.raised = "none"
                     /\ lgraphs'[dependent].status = "completed"
                     /\ lgraphs'[dependent].result = dependency.result
                     /\ StoreWaitingOnlyOn(lnodes, dependent) \subseteq llast'.ready_nodes
              /\ dependency.status = "cancelled" => lgraphs'[dependent].status = "cancelled"
              /\ dependency.status # "created" =>
                     \A g \in DOMAIN lgraphs :
                         lgraphs'[g].dependent_graph_id = lgraphs[g].dependent_graph_id]_vars

\* C27: the terminal states of a graph are absorbing.  No storage call turns
\* a completed graph into a cancelled one or a cancelled graph into a
\* completed one.
C27_TerminalAbsorbing ==
    [][\A g \in DOMAIN lgraphs :
          /\ lgraphs[g].status = "completed" => lgraphs'[g].status # "cancelled"
          /\ lgraphs[g].status = "cancelled" => lgraphs'[g].status # "completed"]_vars

\* The graphs that cancelling the graphs of S reaches: S, the graphs named
\* by their dependent_graph_id back-edges, and the graphs of the nodes that
\* depend on them, repeatedly.
RECURSIVE CancelReach(_, _)
CancelReach(st, S) ==
    LET chained == {st.graphs[g].dependent_graph_id : g \in S} \ {NULL}
        waiting == UNION {st.graphs[g].dependent_node_ids : g \in S} \cap DOMAIN st.nodes
        T == S \cup chained \cup {st.nodes[n].graph_id : n \in waiting}
    IN  IF T = S THEN S ELSE CancelReach(st, T)

\* The step is a call of mark_graph_cancelled.
MarkGraphCancelledStep ==
    /\ llast'.calls = llast.calls + 1
    /\ llast'.op = "mark_graph_cancelled"

\* C39: mark_graph_cancelled(g) returns, without raising, exactly g and the
\* graphs reachable from g through dependent_graph_id back-edges and the
\* graphs of dependent nodes; it sets exactly these to cancelled and leaves
\* the status of every other graph as it was.
C39_CancelReachesExactly ==
    [][MarkGraphCancelledStep =>
          LET reached == CancelReach(LocalDb, {llast'.id})
          IN  /\ llast'.raised = "none"
              /\ llast'.cancelled_graphs = reached
              /\ \A g \in DOMAIN lgraphs :
                     lgraphs'[g].status = IF g \in reached THEN "cancelled" ELSE lgraphs[g].status]_vars

(***************************************************************************)
(* Claims checked under SpecProgress.                                      *)
(***************************************************************************)
\* Every admitted node is started and finished and every graph has a result.
AllFinished ==
    /\ \A n \in DOMAIN nodes : nodes[n].started_at # 0 /\ nodes[n].finished_at # 0
    /\ \A g \in DOMAIN graphs : graphs[g].result # NULL

\* C28: progress.  When every handler returns a plain value and every
\* published "ready" message is delivered, every admitted node is eventually
\* started and finished and every graph of the session eventually has a
\* non-null result.
C28_Progress == <>AllFinished

\* The last node of the chain has run after both its dependencies.
C28_Witness ==
    /\ AllFinished
    /\ DOMAIN nodes = NodeIds
    /\ \A d \in Deliveries : worker[d].exec = "returned" /\ trace[d].outcome = "value"

(***************************************************************************)
(* Claims checked under SpecCalls.                                         *)
(***************************************************************************)
\* The step was a then call that put the calls before in front of the calls
\* of targets and touched nothing else.
AddedBefore(before, targets) ==
    /\ DOMAIN ncalls' = DOMAIN ncalls
    /\ \A x \in DOMAIN ncalls :
           /\ ncalls'[x].arguments = ncalls[x].arguments
           /\ ncalls'[x].dependencies = IF x \in Range(targets)
                                        THEN ncalls[x].dependencies \cup before
                                        ELSE ncalls[x].dependencies
    /\ ncache' = ncache

\* C29: call.then(c1, ..., cN) adds call to the non-data dependencies of
\* each ci and changes nothing else; it returns c1 itself when N = 1, a
\* NodeCalls over (c1, ..., cN) when N > 1, and call itself, with no
\* dependency added anywhere, when N = 0.  NodeCalls.then adds every wrapped
\* call to the non-data dependencies of each ci.
C29_ThenAddsOrderingDependency ==
    [][nlast'.thens # nlast.thens =>
          LET self == nlast'.self
              targets == nlast'.calls
          IN  /\ nlast'.op = "NodeCall.then" =>
                     /\ AddedBefore({self}, targets)
                     /\ Len(targets) = 0 =>
                            ncalls' = ncalls /\ nlast'.returned = [kind |-> "NodeCall", id |-> self]
                     /\ Len(targets) = 1 => nlast'.returned = [kind |-> "NodeCall", id |-> targets[1]]
                     /\ Len(targets) > 1 => nlast'.returned = [kind |-> "NodeCalls", calls |-> targets]
              /\ nlast'.op = "NodeCalls.then" => AddedBefore(Range(self), targets)]_vars

\* A then with two calls returned a NodeCalls, and then on that NodeCalls
\* has put its two calls before a third.
C29_Witness ==
    /\ nlast.op = "NodeCalls.then"
    /\ Len(nlast.self) = 2
    /\ Len(nlast.calls) = 1
    /\ nlast.calls[1] \notin Range(nlast.self)
    /\ Range(nlast.self) \subseteq ncalls[nlast.calls[1]].dependencies

(***************************************************************************)
(* Claims checked under SpecInvoke.                                        *)
(***************************************************************************)
\* The items of the dict d under key k.
ItemsOf(d, k) == {i \in DOMAIN d : d[i][1] = k}

\* C30: a call v used at several argument positions of a call is one node
\* and one dependency edge: the InvokedNode of the dependent holds exactly
\* one dependency item for v, a data dependency, and v has one InvokedNode;
\* at execution every position that referenced v receives v's result.
C30_ReusedCallOneEdge ==
    /\ \A id \in DOMAIN ncache :
           \A v \in Range(ncalls[id].arguments) \ Literals :
               /\ Cardinality(ItemsOf(ncache[id].dependencies, v)) = 1
               /\ DictGet(ncache[id].dependencies, v)
               /\ v \in DOMAIN ncache /\ ncache[v].id = v
    /\ nlast.op = "execute_node" =>
           \A i \in DOMAIN ncalls[nlast.self].arguments :
               LET v == ncalls[nlast.self].arguments[i]
               IN  IF v \in Literals THEN nlast.returned[i] = v
                   ELSE nlast.returned[i] = nlast.results[v]

\* A node whose call was built as f(v, u, v) runs with different results of
\* v and u: the first and the third argument are v's result.
C30_Witness ==
    /\ nlast.op = "execute_node"
    /\ LET arguments == ncalls[nlast.self].arguments
       IN  /\ Len(arguments) = 3
           /\ arguments[1] = arguments[3]
           /\ arguments[2] \notin Literals \cup {arguments[1]}
           /\ nlast.results[arguments[1]] # nlast.results[arguments[2]]
           /\ nlast.returned[1] = nlast.returned[3]
           /\ nlast.returned[1] # nlast.returned[2]
           /\ Len(ncache[nlast.self].dependencies) = 2

\* C40: a call that then has put before a node and that is also a data
\* argument of the node is one dependency of the InvokedNode, with is_data
\* true; a call that is only put before the node is one dependency with
\* is_data false.
C40_OrderingAndDataOneDependency ==
    \A id \in DOMAIN ncache :
        \A v \in ncalls[id].dependencies :
            /\ Cardinality(ItemsOf(ncache[id].dependencies, v)) = 1
            /\ DictGet(ncache[id].dependencies, v) = (v \in Range(ncalls[id].arguments))

\* The InvokedNode of a call built as f(v, x, v) with v and u put before it
\* by then: two dependencies, v a data dependency and u an ordering one.
C40_Witness ==
    \E id \in DOMAIN ncache : \E v, u \in ncalls[id].dependencies :
        /\ v \in Range(ncalls[id].arguments)
        /\ u \notin Range(ncalls[id].arguments)
        /\ Len(ncache[id].dependencies) = 2
        /\ DictGet(ncache[id].dependencies, v)
        /\ ~DictGet(ncache[id].dependencies, u)

(***************************************************************************)
(* Claims checked under SpecBroker.                                        *)
(***************************************************************************)
\* The wrapper of message m has ended.
WrapperEnded(m) == messages[m].pos \in {"done", "failed"}

\* C32: every node-ready message delivered to a worker callback is
\* acknowledged exactly once, after the callback has finished, whether the
\* callback returned, raised (NodeNotFound included) or was cancelled: no
\* acknowledgement exists before the callback has ended, never more than
\* one, a wrapper that has ended has acknowledged its message, and an
\* acknowledgement is only ever added for a message whose callback has ended.
C32_AckExactlyOnceAfterCallback ==
    /\ \A m \in Messages :
           /\ messages[m].acks <= 1
           /\ messages[m].pos \in {"queued", "callback"} => messages[m].acks = 0
           /\ messages[m].acks = 1 => messages[m].outcome # "none"
           /\ WrapperEnded(m) => messages[m].acks = 1
           /\ messages[m].logged <=> messages[m].outcome \in CallbackOutcomes \ {"returned"}

\* One message each whose callback raised NodeNotFound, was cancelled and
\* returned, all three acknowledged.
C32_Witness ==
    \E a, b, c \in Messages :
        /\ messages[a].outcome = "NodeNotFound" /\ messages[a].acks = 1
        /\ messages[b].outcome = "cancelled" /\ messages[b].acks = 1
        /\ messages[c].outcome = "returned" /\ messages[c].acks = 1

(***************************************************************************)
(* Claims checked under SpecRace.                                          *)
(***************************************************************************)
\* How often node n has been reported ready: by its create_node returning
\* true, and by the fan-out of the first complete_node of a dependency.
ReadyReports(n) == (IF admission[n] = 0 THEN 1 ELSE 0) + firstReady[n]

\* C35: no lost or duplicated wake-up.  However create_node of a node
\* interleaves with the first complete_node of the graphs it depends on, the
\* node is never reported ready twice, and once its admission and those
\* completions have committed it has been reported ready exactly once:
\* create_node returned true, or exactly one fan-out contained it.
C35_NoLostOrDuplicatedWakeUp ==
    \A n \in {"n2", "n3"} :
        /\ ReadyReports(n) <= 1
        /\ (/\ tx[<<"create_node", n>>].pc = "done"
            /\ \A g \in DOMAIN CallDependencies(n) : tx[<<"complete_node", g>>].pc = "done")
           => ReadyReports(n) = 1

\* create_node of n2 selected graph n1 as pending, waited for its row while
\* complete_node held it, found the result written, and returned true;
\* create_node of n3 was counted one dependency and released by a fan-out.
C35_Witness ==
    /\ tx[<<"create_node", "n2">>].pc = "done"
    /\ tx[<<"create_node", "n2">>].rows = {"n1"}
    /\ tx[<<"create_node", "n2">>].pending = {}
    /\ admission["n2"] = 0
    /\ firstReady["n2"] = 0
    /\ admission["n3"] = 1
    /\ firstReady["n3"] = 1


(***************************************************************************)
(* Claims checked under SpecExec.                                          *)
(***************************************************************************)
\* Execution e is inside asyncio.wait for a node of graph g.
Executing(e, g) ==
    /\ executions[e].pc = "waiting"
    /\ ExecGraphOf(executions[e].node) = g

\* C38: when on_graph_cancelled(g) runs while executions of nodes of g are
\* waiting on the worker, the event of every one of them is set, so that
\* each is aborted - also when another execution of a node of g has ended.
C38_CancelAbortsEveryExecution ==
    [][\A g \in ExecGraphs :
          (g \in lcancelled /\ g \notin lcancelled')
          => \A e \in Executions : Executing(e, g) => events'[executions[e].event]]_vars
====
